---- MODULE Spec2Model ----
(***************************************************************************)
(* Model of the ROI baseline / performance-fee service                     *)
(* (sales_funnel_roi_service.py) and of the funnel records it reads and    *)
(* writes, including funnels created from a vertical template              *)
(* (sales_funnel_vertical_templates.py).                                   *)
(*                                                                         *)
(* Numbers.  The service computes on Python numbers.  They are modelled as *)
(* exact rationals [n, d] in lowest terms with d > 0, so that percentages, *)
(* thresholds ("> 5", "> 15", "> 10"), the 15% cap and round(x, 2) are     *)
(* computed, not abstracted.  round(x, 2) is modelled on the exact value,  *)
(* ties going to the even cent.                                            *)
(***************************************************************************)
EXTENDS Integers, Sequences, FiniteSets, TLC

VARIABLES funnels, response, baselined, call

vars == <<funnels, response, baselined, call>>

-----------------------------------------------------------------------------
(* Exact rational arithmetic                                               *)

Abs(x) == IF x < 0 THEN -x ELSE x

RECURSIVE GCD(_, _)
GCD(a, b) == IF b = 0 THEN a ELSE GCD(b, a % b)

\* n/d with the common factor g divided out and the sign in the numerator
Reduced(n, d, g) == [n |-> (IF d < 0 THEN -n ELSE n) \div g, d |-> Abs(d) \div g]

Rat(n, d) == Reduced(n, d, GCD(Abs(n), Abs(d)))

Num(k) == [n |-> k, d |-> 1]
Zero == Num(0)

\* sums and comparisons go through the least common denominator
AddOver(x, y, g) == Rat(x.n * (y.d \div g) + y.n * (x.d \div g), (x.d \div g) * y.d)
Add(x, y) == AddOver(x, y, GCD(x.d, y.d))
Neg(x) == [n |-> -x.n, d |-> x.d]
Sub(x, y) == Add(x, Neg(y))
Times(a, b) == [n |-> a.n * b.n, d |-> a.d * b.d]
Mul(x, y) == Times(Rat(x.n, y.d), Rat(y.n, x.d))
Div(x, y) == Mul(x, Rat(y.d, y.n))
Lt(x, y) == Sub(x, y).n < 0
Le(x, y) == Sub(x, y).n <= 0
Gt(x, y) == Lt(y, x)
Ge(x, y) == Le(y, x)
Min(x, y) == IF Le(x, y) THEN x ELSE y
Max(x, y) == IF Ge(x, y) THEN x ELSE y

\* Python round(x, 2): the nearest multiple of 0.01.
Round2(x) ==
    LET p == x.n * 100
        q == x.d
        f == p \div q
        r == p - f * q
        c == IF 2 * r < q THEN f
             ELSE IF 2 * r > q THEN f + 1
             ELSE IF f % 2 = 0 THEN f ELSE f + 1
    IN  Rat(c, 100)

\* dict.get(key, default) on a dict modelled as a function
Get(dict, key, default) == IF key \in DOMAIN dict THEN dict[key] ELSE default

-----------------------------------------------------------------------------
(* ROIBaselineService.__init__                                             *)

performance_fee_rates ==
    [starter |-> Rat(5, 100), professional |-> Rat(7, 100), enterprise |-> Rat(10, 100)]

minimum_improvement_threshold == Rat(5, 100)

key_metrics == <<"total_revenue", "conversion_rate", "average_order_value", "roi_percentage">>

KeyMetricSet == {key_metrics[i] : i \in DOMAIN key_metrics}

-----------------------------------------------------------------------------
(* ROIBaselineService._calculate_improvements                              *)

\* ImprovementOf with the threshold met at exactly 5% (>= for >)
ImprovementOf_InclusiveThreshold(baseline_value, current_value) ==
    IF Gt(baseline_value, Zero)
    THEN LET absolute_change == Sub(current_value, baseline_value)
             percentage_change == Mul(Div(absolute_change, baseline_value), Num(100))
         IN  [baseline |-> baseline_value,
              current |-> current_value,
              absolute_change |-> absolute_change,
              percentage |-> percentage_change,
              improved |-> Ge(percentage_change,
                              Mul(minimum_improvement_threshold, Num(100)))]
    ELSE [baseline |-> baseline_value,
          current |-> current_value,
          absolute_change |-> current_value,
          percentage |-> Zero,
          improved |-> FALSE]

\* ImprovementOf with the change taken as baseline - current
ImprovementOf_ReversedChange(baseline_value, current_value) ==
    IF Gt(baseline_value, Zero)
    THEN LET absolute_change == Sub(baseline_value, current_value)
             percentage_change == Mul(Div(absolute_change, baseline_value), Num(100))
         IN  [baseline |-> baseline_value,
              current |-> current_value,
              absolute_change |-> absolute_change,
              percentage |-> percentage_change,
              improved |-> Gt(percentage_change,
                              Mul(minimum_improvement_threshold, Num(100)))]
    ELSE [baseline |-> baseline_value,
          current |-> current_value,
          absolute_change |-> current_value,
          percentage |-> Zero,
          improved |-> FALSE]

\* ImprovementOf without the baseline_value > 0 guard: from a zero baseline
\* any positive current value counts as improved
ImprovementOf_NoZeroGuard(baseline_value, current_value) ==
    IF Gt(baseline_value, Zero)
    THEN LET absolute_change == Sub(current_value, baseline_value)
             percentage_change == Mul(Div(absolute_change, baseline_value), Num(100))
         IN  [baseline |-> baseline_value,
              current |-> current_value,
              absolute_change |-> absolute_change,
              percentage |-> percentage_change,
              improved |-> Gt(percentage_change,
                              Mul(minimum_improvement_threshold, Num(100)))]
    ELSE [baseline |-> baseline_value,
          current |-> current_value,
          absolute_change |-> current_value,
          percentage |-> Zero,
          improved |-> Gt(current_value, Zero)]

ImprovementOf(baseline_value, current_value) ==
    IF Gt(baseline_value, Zero)
    THEN LET absolute_change == Sub(current_value, baseline_value)
             percentage_change == Mul(Div(absolute_change, baseline_value), Num(100))
         IN  [baseline |-> baseline_value,
              current |-> current_value,
              absolute_change |-> absolute_change,
              percentage |-> percentage_change,
              improved |-> Gt(percentage_change,
                              Mul(minimum_improvement_threshold, Num(100)))]
    ELSE [baseline |-> baseline_value,
          current |-> current_value,
          absolute_change |-> current_value,
          percentage |-> Zero,
          improved |-> FALSE]

_calculate_improvements(baseline, current) ==
    [metric \in KeyMetricSet |->
        ImprovementOf(Get(baseline, metric, Zero), Get(current, metric, Zero))]

-----------------------------------------------------------------------------
(* ROIBaselineService._calculate_tiered_fees                               *)

\* improvements.get(metric, {}) followed by .get('improved', False),
\* .get('absolute_change', 0), .get('percentage', 0)
EmptyImprovement == [absolute_change |-> Zero, percentage |-> Zero, improved |-> FALSE]

ConversionBonusThreshold == 15
AovBonusThreshold == 10
MaxFeeCapRate == Rat(15, 100)

RevenueFeePart(improvements, fee_rate) ==
    LET revenue_improvement == Get(improvements, "total_revenue", EmptyImprovement)
    IN  IF revenue_improvement.improved
        THEN LET incremental_revenue == Max(Zero, revenue_improvement.absolute_change)
                 revenue_fee == Mul(incremental_revenue, fee_rate)
             IN  "revenue_fee" :> [incremental_revenue |-> incremental_revenue,
                                   fee_rate |-> fee_rate,
                                   fee_amount |-> revenue_fee,
                                   improvement_percentage |-> revenue_improvement.percentage]
        ELSE <<>>

\* ConversionBonusPart with the bonus granted at exactly 15 (>= for >)
ConversionBonusPart_InclusiveThreshold(improvements, current_metrics) ==
    LET conversion_improvement == Get(improvements, "conversion_rate", EmptyImprovement)
    IN  IF conversion_improvement.improved
           /\ Ge(conversion_improvement.percentage, Num(ConversionBonusThreshold))
        THEN LET current_revenue == Get(current_metrics, "total_revenue", Zero)
                 conversion_bonus_rate ==
                     Min(Rat(2, 100),
                         Mul(Sub(conversion_improvement.percentage,
                                 Num(ConversionBonusThreshold)), Rat(1, 1000)))
                 conversion_bonus == Mul(current_revenue, conversion_bonus_rate)
             IN  "conversion_bonus" :> [improvement_percentage |-> conversion_improvement.percentage,
                                        bonus_rate |-> conversion_bonus_rate,
                                        bonus_amount |-> conversion_bonus,
                                        applied_to_revenue |-> current_revenue]
        ELSE <<>>

\* ConversionBonusPart without the min(0.02, ...) on the bonus rate
ConversionBonusPart_Unbounded(improvements, current_metrics) ==
    LET conversion_improvement == Get(improvements, "conversion_rate", EmptyImprovement)
    IN  IF conversion_improvement.improved
           /\ Gt(conversion_improvement.percentage, Num(ConversionBonusThreshold))
        THEN LET current_revenue == Get(current_metrics, "total_revenue", Zero)
                 conversion_bonus_rate ==
                     Mul(Sub(conversion_improvement.percentage,
                             Num(ConversionBonusThreshold)), Rat(1, 1000))
                 conversion_bonus == Mul(current_revenue, conversion_bonus_rate)
             IN  "conversion_bonus" :> [improvement_percentage |-> conversion_improvement.percentage,
                                        bonus_rate |-> conversion_bonus_rate,
                                        bonus_amount |-> conversion_bonus,
                                        applied_to_revenue |-> current_revenue]
        ELSE <<>>

ConversionBonusPart(improvements, current_metrics) ==
    LET conversion_improvement == Get(improvements, "conversion_rate", EmptyImprovement)
    IN  IF conversion_improvement.improved
           /\ Gt(conversion_improvement.percentage, Num(ConversionBonusThreshold))
        THEN LET current_revenue == Get(current_metrics, "total_revenue", Zero)
                 conversion_bonus_rate ==
                     Min(Rat(2, 100),
                         Mul(Sub(conversion_improvement.percentage,
                                 Num(ConversionBonusThreshold)), Rat(1, 1000)))
                 conversion_bonus == Mul(current_revenue, conversion_bonus_rate)
             IN  "conversion_bonus" :> [improvement_percentage |-> conversion_improvement.percentage,
                                        bonus_rate |-> conversion_bonus_rate,
                                        bonus_amount |-> conversion_bonus,
                                        applied_to_revenue |-> current_revenue]
        ELSE <<>>

\* AovBonusPart with the bonus granted at exactly 10 (>= for >)
AovBonusPart_InclusiveThreshold(improvements, current_metrics) ==
    LET aov_improvement == Get(improvements, "average_order_value", EmptyImprovement)
    IN  IF aov_improvement.improved
           /\ Ge(aov_improvement.percentage, Num(AovBonusThreshold))
        THEN LET aov_bonus_rate ==
                     Min(Rat(1, 100),
                         Mul(Sub(aov_improvement.percentage, Num(AovBonusThreshold)),
                             Rat(5, 10000)))
                 aov_bonus == Mul(Get(current_metrics, "total_revenue", Zero), aov_bonus_rate)
             IN  "aov_bonus" :> [improvement_percentage |-> aov_improvement.percentage,
                                 bonus_rate |-> aov_bonus_rate,
                                 bonus_amount |-> aov_bonus]
        ELSE <<>>

AovBonusPart(improvements, current_metrics) ==
    LET aov_improvement == Get(improvements, "average_order_value", EmptyImprovement)
    IN  IF aov_improvement.improved
           /\ Gt(aov_improvement.percentage, Num(AovBonusThreshold))
        THEN LET aov_bonus_rate ==
                     Min(Rat(1, 100),
                         Mul(Sub(aov_improvement.percentage, Num(AovBonusThreshold)),
                             Rat(5, 10000)))
                 aov_bonus == Mul(Get(current_metrics, "total_revenue", Zero), aov_bonus_rate)
             IN  "aov_bonus" :> [improvement_percentage |-> aov_improvement.percentage,
                                 bonus_rate |-> aov_bonus_rate,
                                 bonus_amount |-> aov_bonus]
        ELSE <<>>

\* the amount a breakdown component added to total_fees
ComponentAmount(breakdown, component) ==
    IF component \notin DOMAIN breakdown THEN Zero
    ELSE IF component = "revenue_fee" THEN breakdown[component].fee_amount
    ELSE breakdown[component].bonus_amount

FeeComponents == {"revenue_fee", "conversion_bonus", "aov_bonus"}

SumOfComponents(breakdown) ==
    Add(Add(ComponentAmount(breakdown, "revenue_fee"),
            ComponentAmount(breakdown, "conversion_bonus")),
        ComponentAmount(breakdown, "aov_bonus"))

\* the value total_fees is returned as: round(total_fees, 2)
ReturnedTotal(total_fees) == Round2(total_fees)

\* the condition under which the cap replaces the sum
CapApplies(total_fees, max_fee_cap, current_revenue) ==
    Gt(total_fees, max_fee_cap) /\ Gt(current_revenue, Zero)

\* lines 394-398: the returned record
FeesReturned(breakdown, total_fees) ==
    [total_fees |-> ReturnedTotal(total_fees),
     breakdown |-> breakdown,
     fee_qualifying |-> Gt(total_fees, Zero)]

\* lines 383-392: the cap on the accumulated total
FeesCapped(parts, total_fees, max_fee_cap, current_revenue) ==
    IF CapApplies(total_fees, max_fee_cap, current_revenue)
    THEN FeesReturned(parts @@ ("fee_cap_applied" :>
                                   [calculated_fees |-> total_fees,
                                    capped_fees |-> max_fee_cap,
                                    cap_percentage |-> MaxFeeCapRate]),
                      max_fee_cap)
    ELSE FeesReturned(parts, total_fees)

FeesOfParts(parts, current_revenue) ==
    FeesCapped(parts, SumOfComponents(parts), Mul(current_revenue, MaxFeeCapRate),
               current_revenue)

\* _calculate_tiered_fees charging the revenue fee only from tier_1 of the
\* revenue target upwards
_calculate_tiered_fees_TierGated(improvements, targets, current_metrics, fee_rate) ==
    FeesOfParts((IF /\ "revenue" \in DOMAIN targets
                    /\ Ge(Get(current_metrics, "total_revenue", Zero),
                          targets.revenue.tier_1)
                 THEN RevenueFeePart(improvements, fee_rate) ELSE [k \in {} |-> Zero])
                @@ ConversionBonusPart(improvements, current_metrics)
                @@ AovBonusPart(improvements, current_metrics),
                Get(current_metrics, "total_revenue", Zero))

\* lines 330-398; targets is not read
_calculate_tiered_fees(improvements, targets, current_metrics, fee_rate) ==
    FeesOfParts(RevenueFeePart(improvements, fee_rate)
                @@ ConversionBonusPart(improvements, current_metrics)
                @@ AovBonusPart(improvements, current_metrics),
                Get(current_metrics, "total_revenue", Zero))

-----------------------------------------------------------------------------
(* ROIBaselineService._estimate_cac, _estimate_cost_per_lead               *)

\* _estimate_cac dividing by max(1, customers) in place of the zero test
_estimate_cac_FloorOne(revenue, customers) ==
    Div(Mul(revenue, Rat(20, 100)), Max(Num(1), customers))

\* customers == 0 compares by value: Decimal('0') == 0 holds
_estimate_cac(revenue, customers) ==
    IF customers.n = 0 THEN Zero
    ELSE Div(Mul(revenue, Rat(20, 100)), customers)

_estimate_cost_per_lead(leads) ==
    IF leads = Zero THEN Zero
    ELSE Min(Num(25), Div(Num(1000), leads))

-----------------------------------------------------------------------------
(* ROIBaselineService._standardize_baseline_metrics                        *)

StandardizedDefaults ==
    [total_revenue |-> Zero, total_transactions |-> Zero, conversion_rate |-> Zero,
     average_order_value |-> Zero, total_leads |-> Zero, cost_per_lead |-> Zero,
     customer_acquisition_cost |-> Zero, lifetime_value |-> Zero,
     roi_percentage |-> Zero, operational_costs |-> Zero]

PlatformUpdate(platform, metrics, baseline_data) ==
    IF platform = "shopify"
    THEN [StandardizedDefaults EXCEPT
            !.total_revenue = Get(metrics, "total_revenue", Zero),
            !.total_transactions = Get(metrics, "total_orders", Zero),
            !.conversion_rate = Get(baseline_data, "conversion_rate", Zero),
            !.average_order_value = Get(metrics, "average_order_value", Zero),
            !.total_leads = Add(Get(metrics, "total_orders", Zero),
                                Get(metrics, "abandoned_checkouts", Zero)),
            !.customer_acquisition_cost = _estimate_cac(Get(metrics, "total_revenue", Zero),
                                                        Get(metrics, "total_orders", Zero)),
            !.operational_costs = Mul(Get(metrics, "total_revenue", Zero), Rat(3, 10))]
    ELSE IF platform = "hubspot"
    THEN [StandardizedDefaults EXCEPT
            !.total_revenue = Get(metrics, "total_revenue", Zero),
            !.total_transactions = Get(metrics, "closed_won_deals", Zero),
            !.conversion_rate = Get(baseline_data, "deal_close_rate", Zero),
            !.average_order_value = Get(metrics, "average_deal_value", Zero),
            !.total_leads = Get(metrics, "total_contacts", Zero),
            !.cost_per_lead = _estimate_cost_per_lead(Get(metrics, "total_contacts", Zero)),
            !.customer_acquisition_cost = _estimate_cac(Get(metrics, "total_revenue", Zero),
                                                        Get(metrics, "closed_won_deals", Zero))]
    ELSE IF platform = "google_analytics"
    THEN LET revenue == Get(metrics, "total_revenue", Zero)
             conversions == Get(metrics, "total_conversions", Zero)
             sessions == Get(metrics, "total_sessions", Zero)
         IN  [StandardizedDefaults EXCEPT
                !.total_revenue = revenue,
                !.total_transactions = conversions,
                !.conversion_rate = Get(baseline_data, "conversion_rate", Zero),
                !.average_order_value = Div(revenue, Max(Num(1), conversions)),
                !.total_leads = sessions,
                !.cost_per_lead = _estimate_cost_per_lead(sessions),
                !.customer_acquisition_cost = _estimate_cac(revenue, conversions)]
    ELSE StandardizedDefaults

\* WithRoi reporting the net revenue in place of the ratio
WithRoi_NetRevenue(standardized) ==
    IF Gt(standardized.operational_costs, Zero)
    THEN [standardized EXCEPT !.roi_percentage =
             Sub(standardized.total_revenue, standardized.operational_costs)]
    ELSE standardized

\* WithRoi taking the return on revenue in place of the return on costs
WithRoi_OnRevenue(standardized) ==
    IF Gt(standardized.operational_costs, Zero)
    THEN [standardized EXCEPT !.roi_percentage =
             Mul(Div(Sub(standardized.total_revenue, standardized.operational_costs),
                     standardized.total_revenue), Num(100))]
    ELSE standardized

\* lines 147-151
WithRoi(standardized) ==
    IF Gt(standardized.operational_costs, Zero)
    THEN [standardized EXCEPT !.roi_percentage =
             Mul(Div(Sub(standardized.total_revenue, standardized.operational_costs),
                     standardized.operational_costs), Num(100))]
    ELSE standardized

\* lines 153-155
WithLifetimeValue(standardized) ==
    IF Gt(standardized.total_transactions, Zero)
    THEN [standardized EXCEPT !.lifetime_value =
             Mul(standardized.average_order_value, Rat(25, 10))]
    ELSE standardized

\* _standardize_baseline_metrics reading any platform it does not know as a
\* shopify payload
_standardize_baseline_metrics_DefaultShopify(platform, metrics, baseline_data) ==
    WithLifetimeValue(WithRoi(PlatformUpdate(
        IF platform \in {"hubspot", "google_analytics"} THEN platform ELSE "shopify",
        metrics, baseline_data)))

_standardize_baseline_metrics(platform, metrics, baseline_data) ==
    WithLifetimeValue(WithRoi(PlatformUpdate(platform, metrics, baseline_data)))

-----------------------------------------------------------------------------
(* ROIBaselineService._calculate_performance_targets                       *)

_calculate_performance_targets(baseline) ==
    LET base_revenue == Get(baseline, "total_revenue", Zero)
        base_conversion == Get(baseline, "conversion_rate", Zero)
        base_aov == Get(baseline, "average_order_value", Zero)
        base_roi == Get(baseline, "roi_percentage", Zero)
    IN  [revenue |->
            [tier_1 |-> Mul(base_revenue, Rat(110, 100)),
             tier_2 |-> Mul(base_revenue, Rat(125, 100)),
             tier_3 |-> Mul(base_revenue, Rat(150, 100)),
             baseline |-> base_revenue],
         conversion_rate |->
            [tier_1 |-> Mul(base_conversion, Rat(115, 100)),
             tier_2 |-> Mul(base_conversion, Rat(130, 100)),
             tier_3 |-> Mul(base_conversion, Rat(150, 100)),
             baseline |-> base_conversion],
         average_order_value |->
            [tier_1 |-> Mul(base_aov, Rat(110, 100)),
             tier_2 |-> Mul(base_aov, Rat(120, 100)),
             tier_3 |-> Mul(base_aov, Rat(135, 100)),
             baseline |-> base_aov],
         roi_percentage |->
            [tier_1 |-> Add(base_roi, Num(15)),
             tier_2 |-> Add(base_roi, Num(30)),
             tier_3 |-> Add(base_roi, Num(50)),
             baseline |-> base_roi]]

-----------------------------------------------------------------------------
(* The funnel table.  funnels maps the id of every committed SalesFunnel   *)
(* row to its columns; SalesFunnel.query.get(id) is None for any other id. *)
(* The automation_rules column is None or JSON text; JSON text is modelled *)
(* by the value it encodes, a list or a dict.                              *)

MaxFunnels == 2

FunnelIds == 1..MaxFunnels
MissingFunnelId == MaxFunnels + 1

None == [kind |-> "None"]
EmptyDict == [k \in {} |-> Zero]

JList(items) == [type |-> "list", items |-> items]
JDict(items) == [type |-> "dict", items |-> items]

json_dumps(value) == [kind |-> "json", value |-> value]
json_loads(text) == text.value

\* json.loads(funnel.automation_rules) if funnel.automation_rules else {}
LoadAutomationRules(funnel) ==
    IF funnel.automation_rules = None THEN JDict(EmptyDict)
    ELSE json_loads(funnel.automation_rules)

\* query_get answering an id that has no row with row 1
query_get_AnyRow(funnel_id) ==
    IF funnel_id \in DOMAIN funnels THEN funnels[funnel_id] ELSE funnels[1]

query_get(funnel_id) ==
    IF funnel_id \in DOMAIN funnels THEN funnels[funnel_id] ELSE None

\* the stored roi_baseline / latest_performance of a funnel row, None when the
\* column holds no dict or the dict has no such key
StoredEntry(funnel, key) ==
    LET rules == LoadAutomationRules(funnel)
    IN  IF rules.type = "dict" /\ key \in DOMAIN rules.items
        THEN rules.items[key] ELSE None

-----------------------------------------------------------------------------
(* VerticalTemplateService: the template catalog and                       *)
(* create_funnel_from_template                                             *)

templates ==
    [dtc_ecommerce |->
        [name |-> "DTC E-commerce Sales Funnel", stages |-> 6,
         automation_triggers |->
            <<"Cart abandonment after 30 minutes",
              "Browse abandonment after 24 hours",
              "Post-purchase review request after 7 days",
              "Replenishment reminder based on product cycle",
              "Win-back campaign after 90 days inactive">>],
     b2b_saas |->
        [name |-> "B2B SaaS Sales Funnel", stages |-> 8,
         automation_triggers |->
            <<"MQL scoring threshold reached",
              "Content download follow-up sequence",
              "Trial expiration reminders",
              "Meeting no-show follow-up",
              "Proposal follow-up sequence">>],
     home_services |->
        [name |-> "Home Services Sales Funnel", stages |-> 7,
         automation_triggers |->
            <<"Missed call follow-up within 5 minutes",
              "Appointment confirmation 24 hours prior",
              "Post-service review request within 2 hours",
              "Maintenance reminder based on service type",
              "Emergency service priority routing">>],
     marketing_agency |->
        [name |-> "Marketing Agency Sales Funnel", stages |-> 7,
         automation_triggers |->
            <<"Lead magnet download follow-up sequence",
              "Consultation booking confirmation and reminders",
              "Proposal delivery and follow-up automation",
              "Client onboarding workflow initiation",
              "Quarterly business review scheduling">>],
     education_courses |->
        [name |-> "Online Education Sales Funnel", stages |-> 6,
         automation_triggers |->
            <<"Email sequence after opt-in",
              "Webinar reminder sequence",
              "Cart abandonment recovery",
              "Course completion congratulations",
              "Upsell sequence for advanced courses">>],
     real_estate |->
        [name |-> "Real Estate Sales Funnel", stages |-> 6,
         automation_triggers |->
            <<"Instant lead notification and response",
              "Property match alerts based on criteria",
              "Market update reports monthly",
              "Transaction milestone notifications",
              "Post-close satisfaction and referral requests">>]]

NoName == ""

\* the row create_funnel_from_template adds; the financial columns are not
\* assigned there and keep the column default
NewFunnelFromTemplate(user_id, template_id, custom_name) ==
    [user_id |-> user_id,
     \* custom_name or template['name']
     funnel_name |-> IF custom_name = NoName THEN templates[template_id].name
                     ELSE custom_name,
     target_market |-> template_id,
     automation_rules |-> json_dumps(JList(templates[template_id].automation_triggers)),
     total_investment |-> Zero,
     generated_revenue |-> Zero,
     calculated_roi |-> Zero]

NextFunnelId == Cardinality(DOMAIN funnels) + 1

UserIds == {1}
RequestedTemplates == {"dtc_ecommerce", "fitness_studio"}
CustomNames == {NoName}

\* f'Template {template_id} not found'
ErrTemplateNotFound(template_id) == "Template " \o template_id \o " not found"

Failure(error) == [success |-> FALSE, error |-> error]

create_funnel_from_template(user_id, template_id, custom_name) ==
    IF template_id \notin DOMAIN templates
    THEN /\ response' = [op |-> "create_funnel_from_template",
                         template_id |-> template_id, committed |-> FALSE,
                         ret |-> Failure(ErrTemplateNotFound(template_id))]
         /\ UNCHANGED <<funnels, baselined, call>>
    ELSE /\ NextFunnelId \in FunnelIds
         /\ funnels' = (NextFunnelId :> NewFunnelFromTemplate(user_id, template_id, custom_name))
                       @@ funnels
         /\ response' = [op |-> "create_funnel_from_template",
                         template_id |-> template_id, committed |-> TRUE,
                         ret |-> [success |-> TRUE,
                                  funnel_id |-> NextFunnelId,
                                  template_applied |-> template_id,
                                  stages_configured |-> templates[template_id].stages]]
         /\ UNCHANGED <<baselined, call>>

-----------------------------------------------------------------------------
(* Platform-import payloads handed to the service: per platform, the keys  *)
(* that platform's connector reports, at three activity levels.            *)

DefaultPeriodDays == 30

LevelZero ==
    [revenue |-> Zero, transactions |-> Zero, rate |-> Zero,
     order_value |-> Zero, leads |-> Zero]
LevelBase ==
    [revenue |-> Num(100000), transactions |-> Num(2000), rate |-> Num(2),
     order_value |-> Num(50), leads |-> Num(100000)]
LevelGrown ==
    [revenue |-> Num(130000), transactions |-> Num(2000), rate |-> Rat(5, 2),
     order_value |-> Num(65), leads |-> Num(80000)]

PlatformMetrics(platform, v) ==
    IF platform = "shopify"
    THEN [total_revenue |-> v.revenue, total_orders |-> v.transactions,
          average_order_value |-> v.order_value,
          abandoned_checkouts |-> Sub(v.leads, v.transactions)]
    ELSE IF platform = "hubspot"
    THEN [total_revenue |-> v.revenue, closed_won_deals |-> v.transactions,
          average_deal_value |-> v.order_value, total_contacts |-> v.leads]
    ELSE IF platform = "google_analytics"
    THEN [total_revenue |-> v.revenue, total_conversions |-> v.transactions,
          total_sessions |-> v.leads]
    ELSE [total_revenue |-> v.revenue, total_orders |-> v.transactions]

PlatformBaselineData(platform, v) ==
    IF platform = "hubspot" THEN [deal_close_rate |-> v.rate]
    ELSE [conversion_rate |-> v.rate]

PlatformData(p, v) ==
    [platform |-> p, metrics |-> PlatformMetrics(p, v),
     baseline_data |-> PlatformBaselineData(p, v)]

BaselinePayloads ==
    {PlatformData("shopify", LevelZero), PlatformData("shopify", LevelBase),
     PlatformData("hubspot", LevelGrown), PlatformData("woocommerce", LevelBase)}

\* a later period's payload may leave the platform out (line 247 then takes
\* the baseline's platform)
CurrentPayloads ==
    {PlatformData("shopify", LevelBase), PlatformData("shopify", LevelGrown),
     PlatformData("woocommerce", LevelGrown),
     [metrics |-> PlatformMetrics("shopify", LevelGrown),
      baseline_data |-> PlatformBaselineData("shopify", LevelGrown)]}

-----------------------------------------------------------------------------
(* ROIBaselineService.calculate_baseline_metrics                           *)

ErrFunnelNotFound == "Funnel not found"
ErrNoBaseline == "No ROI baseline found. Please import baseline data first."
ErrListIndex == "list indices must be integers or slices, not str"
ErrListGet == "'list' object has no attribute 'get'"

\* lines 52-61: the roi_baseline record
RoiBaselineRecord(platform, period_days, metrics, baseline_data, standardized_baseline) ==
    [platform |-> platform,
     period_days |-> period_days,
     baseline_metrics |-> standardized_baseline,
     raw_platform_data |-> [metrics |-> metrics, baseline_data |-> baseline_data],
     performance_targets |-> _calculate_performance_targets(standardized_baseline),
     fee_calculation_ready |-> TRUE]

\* lines 46-50
RoiBaselineFrom(platform, period_days, metrics, baseline_data) ==
    RoiBaselineRecord(platform, period_days, metrics, baseline_data,
                      _standardize_baseline_metrics(platform, metrics, baseline_data))

\* lines 41-44
RoiBaselineOf(platform_data) ==
    RoiBaselineFrom(Get(platform_data, "platform", "unknown"),
                    Get(platform_data, "period_days", DefaultPeriodDays),
                    Get(platform_data, "metrics", EmptyDict),
                    Get(platform_data, "baseline_data", EmptyDict))

\* lines 63-71: the row after the baseline is stored in it
FunnelWithBaseline(funnel, roi_baseline) ==
    LET automation_rules == LoadAutomationRules(funnel)
        standardized_baseline == roi_baseline.baseline_metrics
    IN  [funnel EXCEPT
            !.automation_rules =
                json_dumps(JDict(("roi_baseline" :> roi_baseline) @@ automation_rules.items)),
            !.total_investment = standardized_baseline.operational_costs,
            !.generated_revenue = standardized_baseline.total_revenue,
            !.calculated_roi = standardized_baseline.roi_percentage]

BaselineSuccess(funnel_id, roi_baseline) ==
    [success |-> TRUE,
     funnel_id |-> funnel_id,
     platform |-> roi_baseline.platform,
     baseline_metrics |-> roi_baseline.baseline_metrics,
     performance_targets |-> roi_baseline.performance_targets,
     baseline_revenue |-> roi_baseline.baseline_metrics.total_revenue,
     baseline_conversion_rate |-> roi_baseline.baseline_metrics.conversion_rate]

\* automation_rules['roi_baseline'] = ... raises TypeError on a list
BaselineStoreRaises(funnel) == LoadAutomationRules(funnel).type = "list"

\* committed: whether the call reached db.session.commit()
BaselineResponse(funnel_id, platform_data, ret, committed) ==
    [op |-> "calculate_baseline_metrics", funnel_id |-> funnel_id,
     data |-> platform_data, ret |-> ret, committed |-> committed]

\* lines 63-85: store, commit, return
BaselineStored(funnel_id, funnel, platform_data, roi_baseline) ==
    /\ response' = BaselineResponse(funnel_id, platform_data,
                                    BaselineSuccess(funnel_id, roi_baseline), TRUE)
    /\ funnels' = [funnels EXCEPT ![funnel_id] = FunnelWithBaseline(funnel, roi_baseline)]
    /\ baselined' = baselined \cup {funnel_id}

\* an early return or the except branch: nothing is committed
BaselineFailed(funnel_id, platform_data, error) ==
    /\ response' = BaselineResponse(funnel_id, platform_data, Failure(error), FALSE)
    /\ UNCHANGED <<funnels, baselined>>

BaselineOnFunnel(funnel_id, funnel, platform_data) ==
    IF funnel = None THEN BaselineFailed(funnel_id, platform_data, ErrFunnelNotFound)
    ELSE IF BaselineStoreRaises(funnel)
    THEN BaselineFailed(funnel_id, platform_data, ErrListIndex)
    ELSE BaselineStored(funnel_id, funnel, platform_data, RoiBaselineOf(platform_data))

calculate_baseline_metrics(funnel_id, platform_data) ==
    /\ BaselineOnFunnel(funnel_id, query_get(funnel_id), platform_data)
    /\ UNCHANGED call

-----------------------------------------------------------------------------
(* ROIBaselineService.calculate_performance_fees                           *)

\* what sales_funnel_subscription_service.get_user_subscription may return:
\* nothing, an object with a plan_name attribute, or a dict with a 'plan'
Subscriptions ==
    {None,
     [shape |-> "object", plan_name |-> "starter"],
     [shape |-> "object", plan_name |-> "Professional"],
     [shape |-> "dict", plan |-> [plan_name |-> "enterprise"]]}

Lower(name) ==
    CASE name = "Starter" -> "starter"
      [] name = "Professional" -> "professional"
      [] name = "Enterprise" -> "enterprise"
      [] OTHER -> name

PlanNameOf(subscription) ==
    IF subscription = None THEN "starter"
    ELSE IF subscription.shape = "object" THEN Lower(subscription.plan_name)
    ELSE IF "plan" \in DOMAIN subscription
    THEN Lower(Get(subscription.plan, "plan_name", "starter"))
    ELSE "starter"

\* FeeRateOf charging every plan the whole revenue gain
FeeRateOf_WholeGain(plan_name) == Num(1)

\* FeeRateOf charging every plan the starter rate
FeeRateOf_StarterOnly(plan_name) == Rat(5, 100)

FeeRateOf(plan_name) == Get(performance_fee_rates, plan_name, Rat(5, 100))

\* lines 252-258: improvements over the baseline, then the fees they earn
FeesForImprovements(improvements, performance_targets, current_metrics, fee_rate) ==
    [improvements |-> improvements,
     fee_calculation |-> _calculate_tiered_fees(improvements, performance_targets,
                                                current_metrics, fee_rate)]

FeeComputation(baseline_metrics, performance_targets, current_metrics, fee_rate) ==
    FeesForImprovements(_calculate_improvements(baseline_metrics, current_metrics),
                        performance_targets, current_metrics, fee_rate)

\* lines 264-273: the performance_data record
PerformanceRecord(baseline_metrics, current_metrics, computed, fee_rate, plan_name) ==
    [baseline_metrics |-> baseline_metrics,
     current_metrics |-> current_metrics,
     improvements |-> computed.improvements,
     fee_calculation |-> computed.fee_calculation,
     fee_rate_applied |-> fee_rate,
     plan_name |-> plan_name]

PerformanceAtRate(roi_baseline, current_metrics, fee_rate, plan_name) ==
    PerformanceRecord(roi_baseline.baseline_metrics, current_metrics,
                      FeeComputation(roi_baseline.baseline_metrics,
                                     roi_baseline.performance_targets,
                                     current_metrics, fee_rate),
                      fee_rate, plan_name)

\* lines 245-250
CurrentMetricsOf(roi_baseline, current_period_data) ==
    _standardize_baseline_metrics(
        Get(current_period_data, "platform", roi_baseline.platform),
        Get(current_period_data, "metrics", EmptyDict),
        Get(current_period_data, "baseline_data", EmptyDict))

PerformanceOnPlan(roi_baseline, current_period_data, plan_name) ==
    PerformanceAtRate(roi_baseline, CurrentMetricsOf(roi_baseline, current_period_data),
                      FeeRateOf(plan_name), plan_name)

PerformanceDataOf(roi_baseline, current_period_data, subscription) ==
    PerformanceOnPlan(roi_baseline, current_period_data, PlanNameOf(subscription))

\* FunnelWithPerformance leaving a latest_performance that is already in the
\* blob where it is
FunnelWithPerformance_KeepsStored(funnel, performance_data) ==
    [funnel EXCEPT
        !.generated_revenue = performance_data.current_metrics.total_revenue,
        !.calculated_roi = performance_data.current_metrics.roi_percentage,
        !.automation_rules =
            json_dumps(JDict(LoadAutomationRules(funnel).items
                             @@ ("latest_performance" :> performance_data)))]

\* FunnelWithPerformance writing a blob that holds latest_performance alone
FunnelWithPerformance_FreshBlob(funnel, performance_data) ==
    [funnel EXCEPT
        !.generated_revenue = performance_data.current_metrics.total_revenue,
        !.calculated_roi = performance_data.current_metrics.roi_percentage,
        !.automation_rules = json_dumps(JDict("latest_performance" :> performance_data))]

\* lines 260-276: the row after the performance calculation is stored in it
FunnelWithPerformance(funnel, performance_data) ==
    LET automation_rules == LoadAutomationRules(funnel)
    IN  [funnel EXCEPT
            !.generated_revenue = performance_data.current_metrics.total_revenue,
            !.calculated_roi = performance_data.current_metrics.roi_percentage,
            !.automation_rules =
                json_dumps(JDict(("latest_performance" :> performance_data)
                                 @@ automation_rules.items))]

PerformanceSuccess(funnel_id, performance_data) ==
    [success |-> TRUE,
     funnel_id |-> funnel_id,
     baseline_revenue |-> performance_data.baseline_metrics.total_revenue,
     current_revenue |-> performance_data.current_metrics.total_revenue,
     \* improvements has no 'revenue' key, so the default is what is returned
     revenue_improvement |->
         Get(performance_data.improvements, "revenue", EmptyImprovement).percentage,
     total_fees |-> performance_data.fee_calculation.total_fees,
     fee_breakdown |-> performance_data.fee_calculation.breakdown,
     fee_rate |-> performance_data.fee_rate_applied,
     qualifying_improvements |-> performance_data.improvements]

\* automation_rules.get('roi_baseline') raises AttributeError on a list
RulesGetRaises(funnel) == LoadAutomationRules(funnel).type = "list"

PerformanceResponse(funnel_id, current_period_data, subscription, ret, committed) ==
    [op |-> "calculate_performance_fees", funnel_id |-> funnel_id,
     data |-> current_period_data, subscription |-> subscription, ret |-> ret,
     committed |-> committed]

ErrNotSerializable == "Object of type Decimal is not JSON serializable"

\* line 276: json.dumps raises TypeError on a value that is no JSON number;
\* the standardized metrics are the one part of the blob not computed here
DumpsRaises(performance_data) ==
    \E k \in DOMAIN performance_data.current_metrics :
        "decimal" \in DOMAIN performance_data.current_metrics[k]

\* lines 260-291: store, commit, return.  When json.dumps raises, lines
\* 260-261 have assigned generated_revenue and calculated_roi on the row the
\* session holds and the except branch (lines 293-295) returns without a
\* rollback: pending is what the session holds uncommitted
PerformanceStored(funnel_id, funnel, current_period_data, subscription, performance_data) ==
    IF DumpsRaises(performance_data)
    THEN /\ response' =
                ("pending" :>
                    [generated_revenue |-> performance_data.current_metrics.total_revenue,
                     calculated_roi |-> performance_data.current_metrics.roi_percentage])
                @@ PerformanceResponse(funnel_id, current_period_data, subscription,
                                       Failure(ErrNotSerializable), FALSE)
         /\ UNCHANGED funnels
    ELSE /\ response' = PerformanceResponse(funnel_id, current_period_data, subscription,
                                            PerformanceSuccess(funnel_id, performance_data),
                                            TRUE)
         /\ funnels' = [funnels EXCEPT
                           ![funnel_id] = FunnelWithPerformance(funnel, performance_data)]

\* an early return or the except branch: nothing is committed
PerformanceFailed(funnel_id, current_period_data, subscription, error) ==
    /\ response' = PerformanceResponse(funnel_id, current_period_data, subscription,
                                       Failure(error), FALSE)
    /\ UNCHANGED funnels

\* lines 226-229 and what follows them
PerformanceOnBaseline(funnel_id, funnel, roi_baseline, current_period_data, subscription) ==
    IF roi_baseline = None
    THEN PerformanceFailed(funnel_id, current_period_data, subscription, ErrNoBaseline)
    ELSE PerformanceStored(funnel_id, funnel, current_period_data, subscription,
                           PerformanceDataOf(roi_baseline, current_period_data, subscription))

PerformanceOnFunnel(funnel_id, funnel, current_period_data, subscription) ==
    IF funnel = None
    THEN PerformanceFailed(funnel_id, current_period_data, subscription, ErrFunnelNotFound)
    ELSE IF RulesGetRaises(funnel)
    THEN PerformanceFailed(funnel_id, current_period_data, subscription, ErrListGet)
    ELSE PerformanceOnBaseline(funnel_id, funnel, StoredEntry(funnel, "roi_baseline"),
                               current_period_data, subscription)

calculate_performance_fees(funnel_id, current_period_data, subscription) ==
    /\ PerformanceOnFunnel(funnel_id, query_get(funnel_id), current_period_data, subscription)
    /\ UNCHANGED <<baselined, call>>

-----------------------------------------------------------------------------
(* ROIBaselineService.get_funnel_roi_summary                               *)

\* SummaryOf reporting performance tracking as active once a baseline is stored
SummaryOf_TrackingFromBaseline(funnel_id, funnel) ==
    LET roi_baseline == StoredEntry(funnel, "roi_baseline")
        latest_performance == StoredEntry(funnel, "latest_performance")
        head == [success |-> TRUE,
                 funnel_id |-> funnel_id,
                 funnel_name |-> funnel.funnel_name,
                 baseline_established |-> roi_baseline # None,
                 performance_tracking_active |-> roi_baseline # None]
        baseline ==
            IF roi_baseline # None
            THEN "baseline" :>
                   [platform |-> roi_baseline.platform,
                    period_days |-> roi_baseline.period_days,
                    baseline_revenue |-> roi_baseline.baseline_metrics.total_revenue,
                    baseline_conversion_rate |-> roi_baseline.baseline_metrics.conversion_rate,
                    baseline_aov |-> roi_baseline.baseline_metrics.average_order_value]
            ELSE EmptyDict
        current_performance ==
            IF latest_performance # None
            THEN "current_performance" :>
                   [current_revenue |-> latest_performance.current_metrics.total_revenue,
                    current_conversion_rate |->
                        latest_performance.current_metrics.conversion_rate,
                    total_fees_due |-> latest_performance.fee_calculation.total_fees,
                    fee_rate |-> latest_performance.fee_rate_applied,
                    improvements |-> latest_performance.improvements]
            ELSE EmptyDict
    IN  head @@ baseline @@ current_performance

\* lines 408-439
SummaryOf(funnel_id, funnel) ==
    LET roi_baseline == StoredEntry(funnel, "roi_baseline")
        latest_performance == StoredEntry(funnel, "latest_performance")
        head == [success |-> TRUE,
                 funnel_id |-> funnel_id,
                 funnel_name |-> funnel.funnel_name,
                 baseline_established |-> roi_baseline # None,
                 performance_tracking_active |-> latest_performance # None]
        baseline ==
            IF roi_baseline # None
            THEN "baseline" :>
                   [platform |-> roi_baseline.platform,
                    period_days |-> roi_baseline.period_days,
                    baseline_revenue |-> roi_baseline.baseline_metrics.total_revenue,
                    baseline_conversion_rate |-> roi_baseline.baseline_metrics.conversion_rate,
                    baseline_aov |-> roi_baseline.baseline_metrics.average_order_value]
            ELSE EmptyDict
        current_performance ==
            IF latest_performance # None
            THEN "current_performance" :>
                   [current_revenue |-> latest_performance.current_metrics.total_revenue,
                    current_conversion_rate |->
                        latest_performance.current_metrics.conversion_rate,
                    total_fees_due |-> latest_performance.fee_calculation.total_fees,
                    fee_rate |-> latest_performance.fee_rate_applied,
                    improvements |-> latest_performance.improvements]
            ELSE EmptyDict
    IN  head @@ baseline @@ current_performance

get_funnel_roi_summary(funnel_id) ==
    LET funnel == query_get(funnel_id)
        ret == IF funnel = None THEN Failure(ErrFunnelNotFound)
               ELSE IF RulesGetRaises(funnel) THEN Failure(ErrListGet)
               ELSE SummaryOf(funnel_id, funnel)
    IN  /\ response' = [op |-> "get_funnel_roi_summary", funnel_id |-> funnel_id, ret |-> ret,
                        committed |-> FALSE]
        /\ UNCHANGED <<funnels, baselined, call>>

-----------------------------------------------------------------------------
(* The service in use: funnel 1 was created before any import, with no     *)
(* automation_rules; further funnels are created from templates.           *)

NoCall == [fn |-> "none"]
NoResponse == [op |-> "none"]

InitialFunnel ==
    [user_id |-> 1, funnel_name |-> "Main Funnel", target_market |-> "general",
     automation_rules |-> None,
     total_investment |-> Zero, generated_revenue |-> Zero, calculated_roi |-> Zero]

Init ==
    /\ funnels = (1 :> InitialFunnel)
    /\ response = NoResponse
    /\ baselined = {}
    /\ call = NoCall

RequestIds == FunnelIds \cup {MissingFunnelId}

CreateFunnel ==
    \E user_id \in UserIds, template_id \in RequestedTemplates, custom_name \in CustomNames :
        create_funnel_from_template(user_id, template_id, custom_name)

\* a call that finds no funnel, or a funnel whose automation_rules is a list,
\* fails before it reads its payload: any payload stands for them all
Reads(funnel_id) ==
    /\ funnel_id \in DOMAIN funnels
    /\ LoadAutomationRules(funnels[funnel_id]).type = "dict"

AnyOf(S) == CHOOSE x \in S : TRUE

ImportBaseline ==
    \E funnel_id \in RequestIds :
        \E platform_data \in IF Reads(funnel_id) THEN BaselinePayloads
                              ELSE {AnyOf(BaselinePayloads)} :
            calculate_baseline_metrics(funnel_id, platform_data)

ComputeFeesWith(payloads) ==
    \E funnel_id \in RequestIds :
        \E current_period_data \in IF Reads(funnel_id) THEN payloads
                                    ELSE {AnyOf(payloads)},
           subscription \in IF Reads(funnel_id) THEN Subscriptions ELSE {None} :
            calculate_performance_fees(funnel_id, current_period_data, subscription)

ComputeFees == ComputeFeesWith(CurrentPayloads)

ReadSummary ==
    \E funnel_id \in RequestIds : get_funnel_roi_summary(funnel_id)

Next == CreateFunnel \/ ImportBaseline \/ ComputeFees \/ ReadSummary

Spec == Init /\ [][Next]_vars

-----------------------------------------------------------------------------
(* The fee arithmetic on its own: _calculate_improvements and              *)
(* _calculate_tiered_fees applied to inputs drawn from the sets below.     *)
(* call records one application: its arguments and what it returned.  The  *)
(* functions keep no state, so each behaviour applies one of them once.    *)

\* fee rates a caller of _calculate_tiered_fees may pass: the three plan
\* rates and one above them
FeeRates == {Rat(5, 100), Rat(7, 100), Rat(10, 100), Rat(20, 100)}

PlanRates == {performance_fee_rates[plan] : plan \in DOMAIN performance_fee_rates}

\* an improvements map as any caller may build it: each entry present or not
Absent == [absent |-> TRUE]

RevenueEntries ==
    {[improved |-> b, absolute_change |-> a, percentage |-> Num(30)] :
        b \in BOOLEAN, a \in {Num(-100), Num(100), Num(30000)}}

ConversionEntries ==
    {[improved |-> b, absolute_change |-> Zero, percentage |-> Num(p)] :
        b \in BOOLEAN, p \in {10, 15, 16, 25, 35, 50}}

AovEntries ==
    {[improved |-> b, absolute_change |-> Zero, percentage |-> Num(p)] :
        b \in BOOLEAN, p \in {10, 11, 20, 30, 60}}

Entry(metric, e) == IF e = Absent THEN EmptyDict ELSE metric :> e

ImprovementMap(r, c, a) ==
    Entry("total_revenue", r) @@ Entry("conversion_rate", c)
    @@ Entry("average_order_value", a)

CurrentRevenues == {Zero, Rat(137, 100), Num(130000)}

MetricsWith(revenue, rate, order_value, roi) ==
    [StandardizedDefaults EXCEPT !.total_revenue = revenue,
                                 !.conversion_rate = rate,
                                 !.average_order_value = order_value,
                                 !.roi_percentage = roi]

TieredFeesCall ==
    /\ call = NoCall
    /\ \E r \in RevenueEntries \cup {Absent}, c \in ConversionEntries \cup {Absent},
       a \in AovEntries \cup {Absent}, revenue \in CurrentRevenues, fee_rate \in FeeRates :
        LET improvements == ImprovementMap(r, c, a)
            current_metrics == MetricsWith(revenue, Zero, Zero, Zero)
        IN  /\ call' = [fn |-> "_calculate_tiered_fees",
                        improvements |-> improvements,
                        current_metrics |-> current_metrics,
                        fee_rate |-> fee_rate,
                        result |-> _calculate_tiered_fees(improvements, EmptyDict,
                                                         current_metrics, fee_rate)]
            /\ UNCHANGED <<funnels, response, baselined>>

\* metric values of a baseline period and of a later period
RevenueVals == {Zero, Num(100000), Num(105000), Num(130000), Num(150000)}
RateVals == {Zero, Num(2), Rat(23, 10), Rat(5, 2), Num(3)}
OrderVals == {Zero, Num(50), Num(55), Num(60), Num(80)}
RoiVals == {Zero, Rat(700, 3), Num(300)}

BaselineFeeMetrics ==
    {MetricsWith(revenue, rate, order_value, Zero) :
        revenue \in {Zero, Num(100000)}, rate \in {Zero, Num(2)},
        order_value \in {Zero, Num(50)}}

CurrentFeeMetrics ==
    {MetricsWith(revenue, rate, order_value, Zero) :
        revenue \in RevenueVals, rate \in RateVals, order_value \in OrderVals}

\* a funnel whose revenue is counted in cents
CentBaselineMetrics ==
    {MetricsWith(Rat(1, 100), rate, order_value, Zero) :
        rate \in {Zero, Num(2)}, order_value \in {Zero, Num(50)}}

CentCurrentMetrics ==
    {MetricsWith(revenue, rate, order_value, Zero) :
        revenue \in {Rat(1, 100), Rat(6, 100), Rat(137, 100)}, rate \in RateVals,
        order_value \in OrderVals}

FeePeriods ==
    (BaselineFeeMetrics \X CurrentFeeMetrics) \cup (CentBaselineMetrics \X CentCurrentMetrics)

\* lines 253-258 of calculate_performance_fees on a stored baseline and a
\* later period, at a plan's rate
FeeComputationCall ==
    /\ call = NoCall
    /\ \E periods \in FeePeriods, fee_rate \in PlanRates :
        LET baseline_metrics == periods[1]
            current_metrics == periods[2]
            computed == FeeComputation(baseline_metrics,
                                       _calculate_performance_targets(baseline_metrics),
                                       current_metrics, fee_rate)
        IN  /\ call' = [fn |-> "fee_computation",
                        baseline_metrics |-> baseline_metrics,
                        current_metrics |-> current_metrics,
                        fee_rate |-> fee_rate,
                        improvements |-> computed.improvements,
                        result |-> computed.fee_calculation]
            /\ UNCHANGED <<funnels, response, baselined>>

ImprovementMetrics ==
    {MetricsWith(revenue, rate, order_value, roi) :
        revenue \in {Zero, Num(100000), Num(130000)}, rate \in {Zero, Num(2), Rat(5, 2)},
        order_value \in {Zero, Num(50), Num(80)}, roi \in RoiVals}

ImprovementsCall ==
    /\ call = NoCall
    /\ \E baseline \in ImprovementMetrics, current \in ImprovementMetrics :
        /\ call' = [fn |-> "_calculate_improvements",
                    baseline |-> baseline,
                    current |-> current,
                    result |-> _calculate_improvements(baseline, current)]
        /\ UNCHANGED <<funnels, response, baselined>>

\* the revenue fee of one (baseline revenue, current revenue) pair
RevenueFeeOf(baseline_revenue, current_revenue, fee_rate) ==
    LET computed == FeeComputation(MetricsWith(baseline_revenue, Zero, Zero, Zero), EmptyDict,
                                   MetricsWith(current_revenue, Zero, Zero, Zero), fee_rate)
    IN  ComponentAmount(computed.fee_calculation.breakdown, "revenue_fee")

PairRevenues == RevenueVals \cup {Num(1000), Num(1100)}

\* two fee computations at the same rate, side by side
RevenueFeePairCall ==
    /\ call = NoCall
    /\ \E b1 \in PairRevenues, c1 \in PairRevenues, b2 \in PairRevenues, c2 \in PairRevenues,
       fee_rate \in PlanRates :
        /\ call' = [fn |-> "revenue_fee_pair",
                    fee_rate |-> fee_rate,
                    first |-> [baseline |-> b1, current |-> c1,
                               revenue_fee |-> RevenueFeeOf(b1, c1, fee_rate)],
                    second |-> [baseline |-> b2, current |-> c2,
                                revenue_fee |-> RevenueFeeOf(b2, c2, fee_rate)]]
        /\ UNCHANGED <<funnels, response, baselined>>

NextFees ==
    FeeComputationCall \/ TieredFeesCall \/ ImprovementsCall \/ RevenueFeePairCall

SpecFees == Init /\ [][NextFees]_vars

-----------------------------------------------------------------------------
(* _standardize_baseline_metrics on its own, and the import that stores    *)
(* its result: platforms the service knows and platforms it does not, raw  *)
(* values that are zero, positive and (a refund-heavy period) negative.    *)

Platforms == {"shopify", "hubspot", "google_analytics", "woocommerce", "unknown"}

RawLevels ==
    {[revenue |-> r, transactions |-> t, rate |-> c, order_value |-> a, leads |-> l] :
        r \in {Num(-100), Zero, Num(100000)}, t \in {Zero, Num(4), Num(2000)},
        c \in {Zero, Num(2)}, a \in {Zero, Num(50)},
        l \in {Zero, Num(30), Num(100000)}}

StandardizeCall ==
    /\ call = NoCall
    /\ \E platform \in Platforms, v \in RawLevels :
        /\ call' = [fn |-> "_standardize_baseline_metrics",
                    platform |-> platform,
                    metrics |-> PlatformMetrics(platform, v),
                    baseline_data |-> PlatformBaselineData(platform, v),
                    result |-> _standardize_baseline_metrics(
                                   platform, PlatformMetrics(platform, v),
                                   PlatformBaselineData(platform, v))]
        /\ UNCHANGED <<funnels, response, baselined>>

NextMetrics == StandardizeCall \/ ImportBaseline

SpecMetrics == Init /\ [][NextMetrics]_vars

-----------------------------------------------------------------------------
(* One database session used for several operations.  A period payload may *)
(* carry a Decimal, as a database driver returns for a NUMERIC column; the  *)
(* commit of a later operation on the session (as in line 756 of the        *)
(* template service) flushes whatever the session still holds.              *)

\* a period with no orders, the count coming as Decimal('0')
DecimalPayload ==
    [platform |-> "shopify",
     metrics |-> [PlatformMetrics("shopify", LevelGrown) EXCEPT
                     !.total_orders = [n |-> 0, d |-> 1, decimal |-> TRUE]],
     baseline_data |-> PlatformBaselineData("shopify", LevelGrown)]

\* db.session.commit() of a later operation on the same session
LaterCommit ==
    /\ "pending" \in DOMAIN response
    /\ funnels' = [funnels EXCEPT ![response.funnel_id] =
                      [@ EXCEPT !.generated_revenue = response.pending.generated_revenue,
                                !.calculated_roi = response.pending.calculated_roi]]
    /\ response' = [op |-> "commit", funnel_id |-> response.funnel_id,
                    committed |-> TRUE]
    /\ UNCHANGED <<baselined, call>>

NextSession ==
    \/ ImportBaseline
    \/ ComputeFeesWith(CurrentPayloads \cup {DecimalPayload})
    \/ LaterCommit

SpecSession == Init /\ [][NextSession]_vars

-----------------------------------------------------------------------------
(* Two calls in flight on one funnel.  A call loads the funnel row with    *)
(* SalesFunnel.query.get (lines 36, 220) and stores its result with        *)
(* db.session.commit() (lines 73, 277); another request may run between    *)
(* the two.  call holds the calls in flight: what each was asked, the      *)
(* automation_rules it loaded, what it returned, and the order in which    *)
(* the calls committed.                                                    *)

SharedFunnelId == 1

Sessions == {1, 2}

Idle == [pc |-> "idle"]

RaceRequests ==
    {[op |-> "calculate_baseline_metrics", data |-> d, subscription |-> None] :
        d \in BaselinePayloads}
    \cup {[op |-> "calculate_performance_fees", data |-> d, subscription |-> u] :
        d \in CurrentPayloads, u \in Subscriptions}

InFlight == IF call = NoCall THEN [s \in Sessions |-> Idle] ELSE call.sessions

CommitOrder == IF call = NoCall THEN <<>> ELSE call.order

\* the row as a call holds it: the automation_rules it loaded; the model
\* class declares no version column and the session takes no lock, so the
\* commit writes the columns the call assigned over whatever is stored
HeldRow(s) ==
    [funnels[SharedFunnelId] EXCEPT !.automation_rules = call.sessions[s].automation_rules]

\* lines 36 / 220: funnel = SalesFunnel.query.get(funnel_id)
ReadFunnel(s) ==
    /\ InFlight[s].pc = "idle"
    /\ \E request \in RaceRequests :
        call' = [fn |-> "concurrent",
                 order |-> CommitOrder,
                 sessions |->
                     [InFlight EXCEPT ![s] =
                         [pc |-> "read", op |-> request.op, data |-> request.data,
                          subscription |-> request.subscription,
                          automation_rules |->
                              query_get(SharedFunnelId).automation_rules]]]
    /\ UNCHANGED <<funnels, response, baselined>>

\* the call after its return: stale tells that the stored automation_rules
\* were no longer the loaded ones when the call came to store its result
Returned(session, ret, stale) ==
    [pc |-> "done", op |-> session.op, data |-> session.data,
     subscription |-> session.subscription,
     automation_rules |-> session.automation_rules, ret |-> ret, stale |-> stale]

\* lines 41-85 / 224-291 of a call that holds the row funnel
CommitHeld(s, funnel) ==
    /\ call.fn = "concurrent"
    /\ call.sessions[s].pc = "read"
    /\ IF call.sessions[s].op = "calculate_baseline_metrics"
       THEN BaselineOnFunnel(SharedFunnelId, funnel, call.sessions[s].data)
       ELSE /\ PerformanceOnFunnel(SharedFunnelId, funnel, call.sessions[s].data,
                                   call.sessions[s].subscription)
            /\ UNCHANGED baselined
    /\ call' = [call EXCEPT
                   !.sessions[s] =
                       Returned(@, response'.ret,
                                @.automation_rules
                                    # funnels[SharedFunnelId].automation_rules),
                   !.order = IF response'.committed THEN Append(@, s) ELSE @]

\* CommitSession loading the row again before it computes
CommitSession_Reread(s) == CommitHeld(s, funnels[SharedFunnelId])

CommitSession(s) == CommitHeld(s, HeldRow(s))

\* an import that finished before the two calls began
SetUpBaseline == call = NoCall /\ ImportBaseline

NextRace ==
    \/ SetUpBaseline
    \/ \E s \in Sessions : ReadFunnel(s)
    \/ \E s \in Sessions : CommitSession(s)

SpecRace == Init /\ [][NextRace]_vars

-----------------------------------------------------------------------------
(* The route POST /api/create-from-template.  call holds the request being *)
(* handled: what it read, the answer of check_usage_limits, the funnel ids  *)
(* and the usage records present when it arrived, and every record          *)
(* track_usage has been handed; response is NoResponse from the moment the  *)
(* checks have passed until create_funnel_from_template has returned.       *)

UsageRecorded == IF call.fn = "api_create_from_template" THEN call.usage ELSE <<>>

HttpAnswer(status, body) ==
    [op |-> "api_create_from_template", status |-> status, body |-> body]

RouteRequest(data, usage_check, pc) ==
    [fn |-> "api_create_from_template", pc |-> pc,
     user_id |-> data.user_id, template_id |-> data.template_id,
     custom_name |-> data.custom_name,
     usage_check |-> usage_check,
     funnels_before |-> DOMAIN funnels,
     usage_before |-> Len(UsageRecorded),
     usage |-> UsageRecorded]

\* current_user.id with the JSON body of the request; a body without
\* template_id, or without custom_name, reads as ""
RouteRequests ==
    [user_id : {1, 2},
     template_id : RequestedTemplates \cup {""},
     custom_name : {NoName, "Spring launch"}]

\* the checks with the answer of check_usage_limits not consulted
api_create_from_template_Checks_NoGate ==
    /\ call.fn = "none" \/ (call.fn = "api_create_from_template" /\ call.pc = "answered")
    /\ \E data \in RouteRequests, usage_check \in {"allowed", "denied", "raises"} :
          IF data.template_id = ""
          THEN /\ call' = RouteRequest(data, "not asked", "answered")
               /\ response' = HttpAnswer(400, [error |-> "Template ID is required"])
          ELSE IF usage_check = "raises"
          THEN /\ call' = RouteRequest(data, usage_check, "answered")
               /\ response' = HttpAnswer(500, [error |-> "check_usage_limits"])
          ELSE /\ call' = RouteRequest(data, usage_check, "creating")
               /\ response' = NoResponse
    /\ UNCHANGED <<funnels, baselined>>

\* lines 65-82: the request is read and the usage limit is asked for
api_create_from_template_Checks ==
    /\ call.fn = "none" \/ (call.fn = "api_create_from_template" /\ call.pc = "answered")
    /\ \E data \in RouteRequests, usage_check \in {"allowed", "denied", "raises"} :
          \* if not template_id: None and '' alike
          IF data.template_id = ""
          THEN /\ call' = RouteRequest(data, "not asked", "answered")
               /\ response' = HttpAnswer(400, [error |-> "Template ID is required"])
          ELSE IF usage_check = "raises"
          THEN /\ call' = RouteRequest(data, usage_check, "answered")
               /\ response' = HttpAnswer(500, [error |-> "check_usage_limits"])
          ELSE IF usage_check = "denied"
          THEN /\ call' = RouteRequest(data, usage_check, "answered")
               /\ response' = HttpAnswer(403, [error |-> "limit reached",
                                               upgrade_required |-> FALSE])
          ELSE /\ call' = RouteRequest(data, usage_check, "creating")
               /\ response' = NoResponse
    /\ UNCHANGED <<funnels, baselined>>

\* lines 85-87
api_create_from_template_Create ==
    /\ call.fn = "api_create_from_template"
    /\ call.pc = "creating"
    /\ response = NoResponse
    /\ create_funnel_from_template(call.user_id, call.template_id, call.custom_name)

\* lines 89-106: result is what create_funnel_from_template returned;
\* track_usage returns, having been handed the record, or raises
api_create_from_template_Answer ==
    /\ call.fn = "api_create_from_template"
    /\ call.pc = "creating"
    /\ response.op = "create_funnel_from_template"
    /\ LET result == response.ret
       IN  IF result.success
           THEN \E track_usage \in {"returns", "raises"} :
                  IF track_usage = "returns"
                  THEN /\ call' = [call EXCEPT
                              !.pc = "answered",
                              !.usage = Append(@, [user_id |-> call.user_id,
                                                   resource_type |-> "sales_funnels",
                                                   resource_id |-> result.funnel_id,
                                                   template_id |-> call.template_id])]
                       /\ response' = HttpAnswer(200, [success |-> TRUE,
                                                       funnel_id |-> result.funnel_id])
                  ELSE /\ call' = [call EXCEPT !.pc = "answered"]
                       /\ response' = HttpAnswer(500, [error |-> "track_usage"])
           ELSE /\ call' = [call EXCEPT !.pc = "answered"]
                /\ response' = HttpAnswer(400, [error |-> result.error])
    /\ UNCHANGED <<funnels, baselined>>

NextRoute ==
    \/ api_create_from_template_Checks
    \/ api_create_from_template_Create
    \/ api_create_from_template_Answer

SpecRoute == Init /\ [][NextRoute]_vars

-----------------------------------------------------------------------------
(* The platform connectors: ShopifyConnector.import_leads,                 *)
(* HubSpotConnector.import_leads and ConnectorManager.import_baseline_data. *)
(* call holds the Lead table (rows in insertion order) and the last call:   *)
(* its arguments, the table before it, the connector methods it invoked in  *)
(* order, and what it returned.  Lead.query.filter_by(...).first() sees the *)
(* rows added earlier in the same call (the session flushes before a query).*)
(* A Lead row is kept by the two columns the import looks it up by.         *)

Leads == IF call.fn = "connectors" THEN call.leads ELSE <<>>

LeadExists(leads, email, funnel_id) ==
    \E j \in 1..Len(leads) :
        leads[j].email = email /\ leads[j].sales_funnel_id = funnel_id

\* GET customers.json: a status other than 200, or the customers of the
\* period; a customer record may lack orders_count
ShopifyResponses ==
    {[status_code |-> 500, customers |-> <<>>]} \cup
    {[status_code |-> 200, customers |-> customers] : customers \in
        {<<>>,
         <<[email |-> "a@x.com", orders_count |-> 2]>>,
         <<[email |-> "a@x.com", orders_count |-> 0],
           [email |-> "b@x.com", orders_count |-> 1]>>,
         <<[email |-> "b@x.com", orders_count |-> 1],
           [email |-> "b@x.com", orders_count |-> 1]>>,
         <<[email |-> "b@x.com", orders_count |-> 1],
           [email |-> "a@x.com"]>>}}

\* GET crm/v3/objects/contacts: createdate is absent (""), a naive ISO time
\* inside or outside the period, or an ISO time ending in Z; email may be
\* absent ("")
HubSpotResponses ==
    {[status_code |-> 500, results |-> <<>>]} \cup
    {[status_code |-> 200, results |-> results] : results \in
        {<<[email |-> "a@x.com", createdate |-> ""]>>,
         <<[email |-> "a@x.com", createdate |-> "in period"],
           [email |-> "", createdate |-> ""],
           [email |-> "b@x.com", createdate |-> "before period"]>>,
         <<[email |-> "b@x.com", createdate |-> ""],
           [email |-> "b@x.com", createdate |-> "in period"]>>,
         <<[email |-> "b@x.com", createdate |-> ""],
           [email |-> "a@x.com", createdate |-> "Z"]>>}}

\* lines 188-219: st is the session's view of the table, imported_leads and
\* whether an exception has left the loop
RECURSIVE ShopifyLoop(_, _, _)
ShopifyLoop(customers, funnel_id, st) ==
    IF customers = <<>> \/ st.raised THEN st
    ELSE LET customer == Head(customers)
         IN  IF LeadExists(st.leads, customer.email, funnel_id)
             THEN ShopifyLoop(Tail(customers), funnel_id, st)
             \* customer['orders_count'] raises KeyError
             ELSE IF "orders_count" \notin DOMAIN customer
             THEN [st EXCEPT !.raised = TRUE]
             ELSE ShopifyLoop(Tail(customers), funnel_id,
                     [leads |-> Append(st.leads,
                                   [sales_funnel_id |-> funnel_id,
                                    email |-> customer.email]),
                      imported_leads |-> Append(st.imported_leads,
                                   [email |-> customer.email, status |-> "imported"]),
                      raised |-> FALSE])

\* the result of import_leads: the table it leaves and the list it returns
LeadsResult(leads, ret) == [leads |-> leads, ret |-> ret]

\* lines 161-229
ShopifyConnector_import_leads(leads, funnel_id, response_, track_usage) ==
    IF response_.status_code # 200 THEN LeadsResult(leads, <<>>)
    ELSE LET st == ShopifyLoop(response_.customers, funnel_id,
                       [leads |-> leads, imported_leads |-> <<>>, raised |-> FALSE])
         IN  \* an exception in the loop: rollback (line 228) drops the added rows
             IF st.raised THEN LeadsResult(leads, <<>>)
             \* track_integration_usage raises after the commit of line 221:
             \* the rollback of line 228 finds nothing to undo
             ELSE IF track_usage = "raises" THEN LeadsResult(st.leads, <<>>)
             ELSE LeadsResult(st.leads, st.imported_leads)

\* lines 436-500
RECURSIVE HubSpotLoop(_, _, _)
HubSpotLoop(contacts, funnel_id, st) ==
    IF contacts = <<>> \/ st.raised THEN st
    ELSE LET properties == Head(contacts)
         IN  \* start_date <= contact_date with contact_date timezone-aware
             \* and start_date naive raises TypeError
             IF properties.createdate = "Z" THEN [st EXCEPT !.raised = TRUE]
             ELSE IF properties.createdate = "before period"
             THEN HubSpotLoop(Tail(contacts), funnel_id, st)
             ELSE IF properties.email = ""
             THEN HubSpotLoop(Tail(contacts), funnel_id, st)
             ELSE IF LeadExists(st.leads, properties.email, funnel_id)
             THEN HubSpotLoop(Tail(contacts), funnel_id, st)
             ELSE HubSpotLoop(Tail(contacts), funnel_id,
                     [leads |-> Append(st.leads,
                                   [sales_funnel_id |-> funnel_id,
                                    email |-> properties.email]),
                      imported_leads |-> Append(st.imported_leads,
                                   [email |-> properties.email, status |-> "imported"]),
                      raised |-> FALSE])

\* lines 411-510
HubSpotConnector_import_leads(leads, funnel_id, response_, track_usage) ==
    IF response_.status_code # 200 THEN LeadsResult(leads, <<>>)
    ELSE LET st == HubSpotLoop(response_.results, funnel_id,
                       [leads |-> leads, imported_leads |-> <<>>, raised |-> FALSE])
         IN  IF st.raised THEN LeadsResult(leads, <<>>)
             ELSE IF track_usage = "raises" THEN LeadsResult(st.leads, <<>>)
             ELSE LeadsResult(st.leads, st.imported_leads)

\* self.connectors.get(platform.lower()) of lines 723-734, by connector class
get_connector(platform) ==
    CASE platform \in {"shopify", "Shopify"} -> "ShopifyConnector"
      [] platform \in {"hubspot"} -> "HubSpotConnector"
      [] platform \in {"google_analytics"} -> "GoogleAnalyticsConnector"
      [] OTHER -> "None"

\* the responses a connector's import_leads may be given
ResponsesOf(connector) ==
    CASE connector = "ShopifyConnector" -> ShopifyResponses
      [] connector = "HubSpotConnector" -> HubSpotResponses
      [] OTHER -> {[status_code |-> 500]}

\* connector.import_leads; GoogleAnalyticsConnector.import_leads (lines
\* 658-709) reads and writes no Lead and returns [] for every answer that is
\* not 200
import_leads(connector, leads, funnel_id, response_, track_usage) ==
    CASE connector = "ShopifyConnector" ->
            ShopifyConnector_import_leads(leads, funnel_id, response_, track_usage)
      [] connector = "HubSpotConnector" ->
            HubSpotConnector_import_leads(leads, funnel_id, response_, track_usage)
      [] OTHER -> LeadsResult(leads, <<>>)

\* what the last call imported with, for telling a re-run
ImportedWith(connector, funnel_id, response_) ==
    [connector |-> connector, funnel_id |-> funnel_id, response |-> response_]

ConnectorCall(op, imported_with, trace, result) ==
    [fn |-> "connectors", op |-> op,
     imported_with |-> imported_with,
     \* the call before this one imported with the same connector, funnel and
     \* upstream answer
     rerun |-> call.fn = "connectors" /\ imported_with # None
                  /\ call.imported_with = imported_with,
     trace |-> trace,
     rows_before |-> Len(Leads),
     leads |-> result.leads,
     ret |-> result.ret]

\* a call of ShopifyConnector.import_leads or HubSpotConnector.import_leads
ImportLeads ==
    \E connector \in {"ShopifyConnector", "HubSpotConnector"}, funnel_id \in {1, 2},
       track_usage \in {"returns", "raises"} :
      \E response_ \in ResponsesOf(connector) :
        LET result == import_leads(connector, Leads, funnel_id, response_, track_usage)
        IN  /\ call' = ConnectorCall("import_leads",
                          ImportedWith(connector, funnel_id, response_),
                          <<"import_leads">>, result)
            /\ response' = [op |-> "import_leads", ret |-> result.ret]
            /\ UNCHANGED <<funnels, baselined>>

\* what import_baseline_data returned, with the platform it was called for
\* and what get_historical_data did
PipelineAnswer(platform, historical_data, ret) ==
    [op |-> "import_baseline_data", platform |-> platform,
     historical_data |-> historical_data, ret |-> ret]

\* import_baseline_data retrying get_historical_data once and going on after
\* its failure
import_baseline_data_Retries(platform, funnel_id, historical_data, response_, track_usage, webhook_result) ==
    LET connector == get_connector(platform)
        with == ImportedWith(connector, funnel_id, response_)
        result == import_leads(connector, Leads, funnel_id, response_, track_usage)
    IN  IF connector = "None"
        THEN /\ call' = ConnectorCall("import_baseline_data", None, <<>>,
                                      LeadsResult(Leads, <<>>))
             /\ response' = PipelineAnswer(platform, "not called",
                                       Failure("Unsupported platform: " \o platform))
        ELSE IF historical_data = "raises"
        THEN /\ call' = ConnectorCall("import_baseline_data", None,
                                      <<"get_historical_data">>, LeadsResult(Leads, <<>>))
             /\ response' = PipelineAnswer(platform, historical_data,
                             Failure("get_historical_data"))
        ELSE /\ call' = ConnectorCall("import_baseline_data", with,
                            IF historical_data = "success"
                            THEN <<"get_historical_data", "import_leads", "setup_webhooks">>
                            ELSE <<"get_historical_data", "get_historical_data",
                                   "import_leads", "setup_webhooks">>, result)
             /\ response' = PipelineAnswer(platform, historical_data,
                             [success |-> TRUE, platform |-> platform,
                                      imported_leads_count |-> Len(result.ret),
                                      webhook_setup |-> webhook_result,
                                      baseline_established |-> TRUE])

\* lines 743-773; historical_data and webhook_result are what the connector's
\* get_historical_data and setup_webhooks do: return success, return
\* success = false, or raise
import_baseline_data(platform, funnel_id, historical_data, response_, track_usage, webhook_result) ==
    LET connector == get_connector(platform)
        with == ImportedWith(connector, funnel_id, response_)
        result == import_leads(connector, Leads, funnel_id, response_, track_usage)
    IN  \* lines 746-748
        IF connector = "None"
        THEN /\ call' = ConnectorCall("import_baseline_data", None, <<>>,
                                      LeadsResult(Leads, <<>>))
             /\ response' = PipelineAnswer(platform, "not called",
                                       Failure("Unsupported platform: " \o platform))
        \* lines 771-773
        ELSE IF historical_data = "raises"
        THEN /\ call' = ConnectorCall("import_baseline_data", None,
                                      <<"get_historical_data">>, LeadsResult(Leads, <<>>))
             /\ response' = PipelineAnswer(platform, historical_data,
                             Failure("get_historical_data"))
        \* lines 753-754: return historical_data
        ELSE IF historical_data = "failure"
        THEN /\ call' = ConnectorCall("import_baseline_data", None,
                                      <<"get_historical_data">>, LeadsResult(Leads, <<>>))
             /\ response' = PipelineAnswer(platform, historical_data,
                             Failure("Failed to fetch"))
        \* lines 771-773
        ELSE IF webhook_result = "raises"
        THEN /\ call' = ConnectorCall("import_baseline_data", with,
                            <<"get_historical_data", "import_leads", "setup_webhooks">>,
                            result)
             /\ response' = PipelineAnswer(platform, historical_data,
                             Failure("setup_webhooks"))
        \* lines 757-769
        ELSE /\ call' = ConnectorCall("import_baseline_data", with,
                            <<"get_historical_data", "import_leads", "setup_webhooks">>,
                            result)
             /\ response' = PipelineAnswer(platform, historical_data,
                             [success |-> TRUE, platform |-> platform,
                                      imported_leads_count |-> Len(result.ret),
                                      webhook_setup |-> webhook_result,
                                      baseline_established |-> TRUE])

\* a call that gets no connector, or whose get_historical_data does not
\* report success, reaches neither import_leads nor setup_webhooks: any
\* outcome of those stands for them all
ImportBaselineData ==
    \E platform \in {"Shopify", "hubspot", "google_analytics", "woocommerce"},
       funnel_id \in {1, 2} :
      \E historical_data \in IF get_connector(platform) = "None" THEN {"success"}
                              ELSE {"success", "failure", "raises"} :
        LET reached == get_connector(platform) # "None" /\ historical_data = "success"
        IN  \E response_ \in IF reached THEN ResponsesOf(get_connector(platform))
                               ELSE {AnyOf(ResponsesOf(get_connector(platform)))},
               track_usage \in IF reached THEN {"returns", "raises"} ELSE {"returns"},
               webhook_result \in IF reached THEN {"success", "failure", "raises"}
                                  ELSE {"success"} :
              /\ import_baseline_data(platform, funnel_id, historical_data, response_,
                                      track_usage, webhook_result)
              /\ UNCHANGED <<funnels, baselined>>

NextConnectors == ImportLeads \/ ImportBaselineData

SpecConnectors == Init /\ [][NextConnectors]_vars

-----------------------------------------------------------------------------
(* Properties of the fee arithmetic (checked under SpecFees)               *)

\* call holds an application of _calculate_tiered_fees, alone or after
\* _calculate_improvements
FeeCall == call.fn \in {"_calculate_tiered_fees", "fee_computation"}

Has(component) == component \in DOMAIN call.result.breakdown

CurrentRevenue == call.current_metrics.total_revenue

\* the percentage change from a positive baseline value to a current value
RelativeChange(base, current) == Mul(Div(Sub(current, base), base), Num(100))

\* C1: Cap invariant.  For every improvements map, current metrics record and
\* fee_rate, the total_fees that _calculate_tiered_fees returns is at most
\* 0.15 x current total_revenue.
C1_CapInvariant ==
    FeeCall => Le(call.result.total_fees, Mul(Rat(15, 100), CurrentRevenue))

\* the percentage-point difference and the relative change of the
\* conversion rate between the two periods of a fee computation
ConversionPoints ==
    Sub(call.current_metrics.conversion_rate, call.baseline_metrics.conversion_rate)

ConversionRelative ==
    RelativeChange(call.baseline_metrics.conversion_rate, call.current_metrics.conversion_rate)

ConversionFrom2To2_5 ==
    /\ call.fn = "fee_computation"
    /\ call.baseline_metrics.conversion_rate = Num(2)
    /\ call.current_metrics.conversion_rate = Rat(5, 2)

\* C4 as stated: the conversion bonus is applied only when the conversion rate
\* rose by more than 15 percentage points over the baseline; from 2.0 to 2.5
\* (0.5 points) the breakdown has no conversion_bonus.
C4_BonusNeedsFifteenPoints ==
    call.fn = "fee_computation" =>
        /\ Has("conversion_bonus") => Gt(ConversionPoints, Num(15))
        /\ ConversionFrom2To2_5 => ~Has("conversion_bonus")

\* C4 amended: the conversion bonus is applied only when the baseline rate is
\* positive and the relative change (current - baseline) / baseline x 100
\* exceeds 15; from 2.0 to 2.5 (25% relative) the bonus is applied, at rate 0.01.
C4_BonusNeedsFifteenPercent ==
    call.fn = "fee_computation" =>
        /\ Has("conversion_bonus") =>
              /\ Gt(call.baseline_metrics.conversion_rate, Zero)
              /\ Gt(ConversionRelative, Num(15))
        /\ ConversionFrom2To2_5 =>
              /\ Has("conversion_bonus")
              /\ call.result.breakdown["conversion_bonus"].bonus_rate = Rat(1, 100)

C4_Witness ==
    /\ ConversionFrom2To2_5
    /\ Has("conversion_bonus")
    /\ Le(ConversionPoints, Num(15))

\* C5: Revenue fee.  The revenue improvement is flagged improved exactly when
\* the baseline revenue is positive and the percentage change is strictly
\* above 5; when flagged, revenue_fee = max(0, current - baseline) x fee_rate,
\* otherwise there is no revenue_fee.  Baseline 100,000, current 130,000 and
\* fee_rate 0.07 give revenue_fee 2,100 and, with neither bonus, total_fees
\* 2,100 and no cap.
RevenueExample ==
    /\ call.fn = "fee_computation"
    /\ call.baseline_metrics.total_revenue = Num(100000)
    /\ call.current_metrics.total_revenue = Num(130000)
    /\ call.fee_rate = Rat(7, 100)

C5_RevenueFee ==
    call.fn = "fee_computation" =>
        LET base == call.baseline_metrics.total_revenue
            current == call.current_metrics.total_revenue
            flagged == call.improvements["total_revenue"].improved
        IN  /\ flagged <=> (Gt(base, Zero) /\ Gt(RelativeChange(base, current), Num(5)))
            /\ flagged =>
                  /\ Has("revenue_fee")
                  /\ call.result.breakdown["revenue_fee"].fee_amount
                        = Mul(Max(Zero, Sub(current, base)), call.fee_rate)
            /\ ~flagged => ~Has("revenue_fee")
            /\ RevenueExample =>
                  /\ Has("revenue_fee")
                  /\ call.result.breakdown["revenue_fee"].fee_amount = Num(2100)
                  /\ (~Has("conversion_bonus") /\ ~Has("aov_bonus")) =>
                        /\ call.result.total_fees = Num(2100)
                        /\ ~Has("fee_cap_applied")

C5_Witness ==
    /\ RevenueExample
    /\ DOMAIN call.result.breakdown = {"revenue_fee"}
    /\ call.result.total_fees = Num(2100)

\* C6 as stated: at a fixed fee_rate the revenue fee is non-decreasing in
\* (current revenue - baseline revenue) over all pairs of baseline and current
\* revenue, and is 0 whenever current <= baseline.
C6_MonotoneInDifference ==
    call.fn = "revenue_fee_pair" =>
        LET a == call.first
            b == call.second
        IN  /\ Le(Sub(a.current, a.baseline), Sub(b.current, b.baseline))
                  => Le(a.revenue_fee, b.revenue_fee)
            /\ Le(a.current, a.baseline) => a.revenue_fee = Zero

\* C6 amended: at a fixed fee_rate and a fixed baseline revenue the revenue fee
\* is non-decreasing in the current revenue, and it is 0 whenever current <=
\* baseline.
C6_MonotoneInCurrent ==
    call.fn = "revenue_fee_pair" =>
        LET a == call.first
            b == call.second
        IN  /\ (a.baseline = b.baseline /\ Le(a.current, b.current))
                  => Le(a.revenue_fee, b.revenue_fee)
            /\ Le(a.current, a.baseline) => a.revenue_fee = Zero

C6_Witness ==
    /\ call.fn = "revenue_fee_pair"
    /\ call.first.baseline = call.second.baseline
    /\ Lt(call.first.current, call.second.current)
    /\ Gt(call.first.revenue_fee, Zero)
    /\ Lt(call.first.revenue_fee, call.second.revenue_fee)

\* C7: Zero-baseline guard.  For each of the four tracked metrics, a baseline
\* value of 0 makes _calculate_improvements report percentage 0 and improved
\* false whatever the current value, so that metric triggers no fee component.
ComponentOf(metric) ==
    CASE metric = "total_revenue" -> "revenue_fee"
      [] metric = "conversion_rate" -> "conversion_bonus"
      [] metric = "average_order_value" -> "aov_bonus"
      [] OTHER -> "none"

C7_ZeroBaselineGuard ==
    /\ call.fn = "_calculate_improvements" =>
          \A metric \in KeyMetricSet :
              call.baseline[metric] = Zero =>
                  /\ call.result[metric].percentage = Zero
                  /\ call.result[metric].improved = FALSE
    /\ call.fn = "fee_computation" =>
          \A metric \in KeyMetricSet :
              call.baseline_metrics[metric] = Zero =>
                  /\ call.improvements[metric].percentage = Zero
                  /\ call.improvements[metric].improved = FALSE
                  /\ ~Has(ComponentOf(metric))

C7_Witness ==
    /\ call.fn = "_calculate_improvements"
    /\ \A metric \in KeyMetricSet :
          /\ call.baseline[metric] = Zero
          /\ Gt(call.current[metric], Zero)
          /\ call.result[metric].improved = FALSE

\* what a component of the returned breakdown contributes
Amount(component) ==
    IF ~Has(component) THEN Zero
    ELSE IF component = "revenue_fee" THEN call.result.breakdown[component].fee_amount
    ELSE call.result.breakdown[component].bonus_amount

ComponentSum == Add(Add(Amount("revenue_fee"), Amount("conversion_bonus")), Amount("aov_bonus"))

FifteenPercentOfRevenue == Mul(Rat(15, 100), CurrentRevenue)

\* C8 as stated: total_fees is the sum of the components present in the
\* breakdown, capped at 15% of current revenue; fee_cap_applied is present
\* exactly when the cap reduced the total, and then holds the pre-cap sum as
\* calculated_fees and the post-cap value as capped_fees.
C8_TotalIsCappedSum ==
    FeeCall =>
        /\ call.result.total_fees = Min(ComponentSum, FifteenPercentOfRevenue)
        /\ Has("fee_cap_applied") <=> Gt(ComponentSum, FifteenPercentOfRevenue)
        /\ Has("fee_cap_applied") =>
              /\ call.result.breakdown["fee_cap_applied"].calculated_fees = ComponentSum
              /\ call.result.breakdown["fee_cap_applied"].capped_fees = call.result.total_fees

\* C9: Conversion bonus amount.  Whenever the conversion bonus is in the
\* breakdown, bonus_rate = min(0.02, (improvement_pct - 15) x 0.001) and
\* bonus_amount = bonus_rate x current revenue; the bonus is at most 2% of
\* current revenue, below it while improvement_pct < 35 and equal to it from 35.
C9_ConversionBonusAmount ==
    (FeeCall /\ Has("conversion_bonus")) =>
        LET bonus == call.result.breakdown["conversion_bonus"]
            pct == call.improvements["conversion_rate"].percentage
        IN  /\ bonus.improvement_percentage = pct
            /\ bonus.bonus_rate = Min(Rat(2, 100), Mul(Sub(pct, Num(15)), Rat(1, 1000)))
            /\ bonus.bonus_amount = Mul(bonus.bonus_rate, CurrentRevenue)
            /\ Le(bonus.bonus_amount, Mul(Rat(2, 100), CurrentRevenue))
            /\ Lt(pct, Num(35)) => Lt(bonus.bonus_rate, Rat(2, 100))
            /\ Ge(pct, Num(35)) => bonus.bonus_rate = Rat(2, 100)

C9_Witness ==
    /\ FeeCall
    /\ Has("conversion_bonus")
    /\ call.improvements["conversion_rate"].percentage = Num(50)
    /\ CurrentRevenue = Num(130000)
    /\ call.result.breakdown["conversion_bonus"].bonus_amount = Num(2600)

\* C10: AOV bonus.  The aov_bonus is in the breakdown only if the
\* average-order-value improvement percentage exceeds 10; then bonus_rate =
\* min(0.01, (improvement_pct - 10) x 0.0005) and bonus_amount = bonus_rate x
\* current revenue, at most 1% of current revenue.
C10_AovBonus ==
    (FeeCall /\ Has("aov_bonus")) =>
        LET bonus == call.result.breakdown["aov_bonus"]
            pct == call.improvements["average_order_value"].percentage
        IN  /\ Gt(pct, Num(10))
            /\ call.fn = "fee_computation" =>
                  /\ Gt(call.baseline_metrics.average_order_value, Zero)
                  /\ pct = RelativeChange(call.baseline_metrics.average_order_value,
                                          call.current_metrics.average_order_value)
            /\ bonus.improvement_percentage = pct
            /\ bonus.bonus_rate = Min(Rat(1, 100), Mul(Sub(pct, Num(10)), Rat(5, 10000)))
            /\ bonus.bonus_amount = Mul(bonus.bonus_rate, CurrentRevenue)
            /\ Le(bonus.bonus_amount, Mul(Rat(1, 100), CurrentRevenue))

C10_Witness ==
    /\ call.fn = "fee_computation"
    /\ Has("aov_bonus")
    /\ call.baseline_metrics.average_order_value = Num(50)
    /\ call.current_metrics.average_order_value = Num(60)
    /\ call.result.breakdown["aov_bonus"].bonus_rate = Rat(5, 1000)
    /\ CurrentRevenue = Num(130000)
    /\ call.result.breakdown["aov_bonus"].bonus_amount = Num(650)

-----------------------------------------------------------------------------
(* Properties of the funnel lifecycle (checked under Spec)                 *)

\* C2: Baseline lifecycle.  For every funnel that exists, a funnel created by
\* create_funnel_from_template included, calculate_baseline_metrics returns
\* success=true; afterwards the funnel's automation_rules holds roi_baseline
\* with the standardized metrics and targets, and total_investment,
\* generated_revenue and calculated_roi equal that baseline's
\* operational_costs, total_revenue and roi_percentage.
C2_BaselineLifecycle ==
    (response.op = "calculate_baseline_metrics" /\ response.funnel_id \in DOMAIN funnels) =>
        LET funnel == funnels[response.funnel_id]
            roi_baseline == StoredEntry(funnel, "roi_baseline")
        IN  /\ response.ret.success
            /\ roi_baseline # None
            /\ roi_baseline.baseline_metrics = response.ret.baseline_metrics
            /\ roi_baseline.performance_targets = response.ret.performance_targets
            /\ funnel.total_investment = roi_baseline.baseline_metrics.operational_costs
            /\ funnel.generated_revenue = roi_baseline.baseline_metrics.total_revenue
            /\ funnel.calculated_roi = roi_baseline.baseline_metrics.roi_percentage

\* C3: Missing prerequisite.  calculate_performance_fees returns success=true
\* only if an earlier calculate_baseline_metrics on the same funnel succeeded;
\* on a funnel with no stored roi_baseline it returns success=false with the
\* 'No ROI baseline found' error and leaves automation_rules, generated_revenue
\* and calculated_roi unchanged.
C3_MissingPrerequisite ==
    [][response'.op = "calculate_performance_fees" =>
          /\ response'.ret.success => response'.funnel_id \in baselined
          /\ (/\ response'.funnel_id \in DOMAIN funnels
              /\ StoredEntry(funnels[response'.funnel_id], "roi_baseline") = None) =>
                LET before == funnels[response'.funnel_id]
                    after == funnels'[response'.funnel_id]
                IN  /\ response'.ret = Failure(ErrNoBaseline)
                    /\ after.automation_rules = before.automation_rules
                    /\ after.generated_revenue = before.generated_revenue
                    /\ after.calculated_roi = before.calculated_roi]_vars

\* the plan tier the subscription collaborator reported, "starter" when it
\* reported nothing
ReportedTier(subscription) ==
    LET reported == IF subscription = None THEN "starter"
                    ELSE IF subscription.shape = "object" THEN subscription.plan_name
                    ELSE subscription.plan.plan_name
    IN  CASE reported \in {"starter", "Starter"} -> "starter"
          [] reported \in {"professional", "Professional"} -> "professional"
          [] reported \in {"enterprise", "Enterprise"} -> "enterprise"

TierRate(tier) ==
    CASE tier = "starter" -> Rat(5, 100)
      [] tier = "professional" -> Rat(7, 100)
      [] tier = "enterprise" -> Rat(10, 100)

FeesSucceeded == response.op = "calculate_performance_fees" /\ response.ret.success

\* C11: Fee rate selection.  The fee_rate that calculate_performance_fees
\* returns and stores as fee_rate_applied is 0.05, 0.07 or 0.10 according to
\* the plan the subscription collaborator reports (starter, professional,
\* enterprise); with no subscription it is 0.05 with plan_name 'starter'; the
\* stored plan_name names the plan whose rate was applied.
C11_FeeRateSelection ==
    FeesSucceeded =>
        LET stored == StoredEntry(funnels[response.funnel_id], "latest_performance")
            tier == ReportedTier(response.subscription)
        IN  /\ response.ret.fee_rate = TierRate(tier)
            /\ stored.fee_rate_applied = TierRate(tier)
            /\ stored.plan_name = tier
            /\ response.subscription = None =>
                  /\ stored.fee_rate_applied = Rat(5, 100)
                  /\ stored.plan_name = "starter"
            /\ "revenue_fee" \in DOMAIN response.ret.fee_breakdown =>
                  response.ret.fee_breakdown["revenue_fee"].fee_rate = TierRate(tier)

C11_Witness ==
    /\ FeesSucceeded
    /\ response.subscription # None
    /\ ReportedTier(response.subscription) = "enterprise"
    /\ StoredEntry(funnels[response.funnel_id], "latest_performance").fee_rate_applied
          = Rat(10, 100)
    /\ "revenue_fee" \in DOMAIN response.ret.fee_breakdown

\* the last call named a funnel id with no row / a template id not in the catalog
FunnelMissing(r) ==
    /\ r.op \in {"calculate_baseline_metrics", "calculate_performance_fees",
                 "get_funnel_roi_summary"}
    /\ r.funnel_id \notin DOMAIN funnels

TemplateMissing(r) ==
    /\ r.op = "create_funnel_from_template"
    /\ r.template_id \notin DOMAIN templates

\* C14: NotFound.  calculate_baseline_metrics, calculate_performance_fees and
\* get_funnel_roi_summary on a funnel id that does not exist, and
\* create_funnel_from_template on a template id not in the catalog, return
\* success=false with a not-found error, create or modify no funnel record and
\* perform no commit.
C14_NotFound ==
    [][(FunnelMissing(response') \/ TemplateMissing(response')) =>
          /\ response'.ret.success = FALSE
          /\ FunnelMissing(response') => response'.ret.error = "Funnel not found"
          /\ TemplateMissing(response') =>
                response'.ret.error = "Template fitness_studio not found"
          /\ funnels' = funnels
          /\ response'.committed = FALSE]_vars

C14_Witness ==
    /\ TemplateMissing(response)
    /\ response.ret.error = "Template fitness_studio not found"
    /\ DOMAIN funnels = FunnelIds
    /\ baselined # {}

BaselineSucceeded(r) == r.op = "calculate_baseline_metrics" /\ r.ret.success

\* C20: Baseline is changed only by a baseline import.  In any step the stored
\* roi_baseline of a funnel changes only if the step is a successful
\* calculate_baseline_metrics on that funnel, and then the stored baseline is
\* the one that call computed (no earlier version is kept);
\* calculate_performance_fees and get_funnel_roi_summary leave it as it was.
C20_BaselineFrame ==
    [][\A id \in DOMAIN funnels :
          LET before == StoredEntry(funnels[id], "roi_baseline")
              after == StoredEntry(funnels'[id], "roi_baseline")
          IN  /\ after # before =>
                    /\ BaselineSucceeded(response')
                    /\ response'.funnel_id = id
                    /\ after.baseline_metrics = response'.ret.baseline_metrics
                    /\ after.performance_targets = response'.ret.performance_targets
                    /\ DOMAIN LoadAutomationRules(funnels'[id]).items
                          \subseteq {"roi_baseline", "latest_performance"}
              /\ response'.op \in {"calculate_performance_fees", "get_funnel_roi_summary"}
                    => after = before]_vars

\* a baseline import has replaced the baseline an earlier fee calculation used
C20_Witness ==
    /\ BaselineSucceeded(response)
    /\ LET funnel == funnels[response.funnel_id]
       IN  /\ StoredEntry(funnel, "latest_performance") # None
           /\ StoredEntry(funnel, "latest_performance").baseline_metrics
                 # StoredEntry(funnel, "roi_baseline").baseline_metrics

\* the targets of every modelled baseline, and no targets at all
TargetsArguments ==
    {EmptyDict} \cup {_calculate_performance_targets(m) : m \in BaselineFeeMetrics}

FeeComputationDone == call.fn = "fee_computation"

\* C23: Targets do not gate fees.  The fees computed for a period with the
\* targets of its baseline (total_fees, breakdown, fee_qualifying) are the
\* fees _calculate_tiered_fees returns for the same improvements, current
\* metrics and fee_rate with any other performance-targets argument.
C23_TargetsDoNotGate ==
    FeeComputationDone =>
        \A targets \in TargetsArguments :
            _calculate_tiered_fees(call.improvements, targets, call.current_metrics,
                                   call.fee_rate) = call.result

\* a revenue fee is charged on a revenue below tier_3 of the baseline's
\* revenue target
C23_Witness ==
    /\ FeeComputationDone
    /\ "revenue_fee" \in DOMAIN call.result.breakdown
    /\ Gt(call.result.total_fees, Zero)
    /\ Lt(call.current_metrics.total_revenue,
          _calculate_performance_targets(call.baseline_metrics).revenue.tier_3)

-----------------------------------------------------------------------------
(* Properties of the standardized metrics (checked under SpecMetrics)      *)

StandardizeDone == call.fn = "_standardize_baseline_metrics"

SupportedPlatforms == {"shopify", "hubspot", "google_analytics"}

TenFields ==
    {"total_revenue", "total_transactions", "conversion_rate", "average_order_value",
     "total_leads", "cost_per_lead", "customer_acquisition_cost", "lifetime_value",
     "roi_percentage", "operational_costs"}

AllZero(record) == DOMAIN record = TenFields /\ \A f \in TenFields : record[f] = Zero

C16_NoNegativeFields ==
    StandardizeDone =>
        /\ \A f \in TenFields : Ge(call.result[f], Zero)
        /\ call.result.operational_costs = Zero => call.result.roi_percentage = Zero

OnSupportedPlatform == StandardizeDone /\ call.platform \in SupportedPlatforms

\* C17 as stated: for each supported platform and every transaction count >= 0
\* (0 included) customer_acquisition_cost = 0.20 x revenue / max(1, count).
C17_CacFloorOne ==
    (OnSupportedPlatform /\ Ge(call.result.total_transactions, Zero)) =>
        call.result.customer_acquisition_cost
            = Div(Mul(Rat(20, 100), call.result.total_revenue),
                  Max(Num(1), call.result.total_transactions))

\* C17 amended: for each supported platform, customer_acquisition_cost =
\* 0.20 x revenue / count when the transaction count is greater than 0, and 0
\* when the count is 0.
C17_CacZeroAtZero ==
    OnSupportedPlatform =>
        /\ Gt(call.result.total_transactions, Zero) =>
              call.result.customer_acquisition_cost
                  = Div(Mul(Rat(20, 100), call.result.total_revenue),
                        call.result.total_transactions)
        /\ call.result.total_transactions = Zero =>
              call.result.customer_acquisition_cost = Zero

C17_Witness ==
    /\ OnSupportedPlatform
    /\ call.result.total_transactions = Zero
    /\ call.result.total_revenue = Num(100000)
    /\ call.result.customer_acquisition_cost = Zero

\* C18: Cost-per-lead estimate.  For each supported platform cost_per_lead =
\* min(25.0, 1000.0 / total_leads) when the record's total_leads is greater
\* than 0, and 0 otherwise.
C18_CostPerLead ==
    OnSupportedPlatform =>
        call.result.cost_per_lead
            = IF Gt(call.result.total_leads, Zero)
              THEN Min(Num(25), Div(Num(1000), call.result.total_leads))
              ELSE Zero

\* C19: ROI derivation.  operational_costs is 0.30 x revenue for shopify and 0
\* for every other platform; roi_percentage = (total_revenue -
\* operational_costs) / operational_costs x 100 when operational_costs > 0 and
\* 0 otherwise.
C19_RoiDerivation ==
    StandardizeDone =>
        LET revenue == call.result.total_revenue
            costs == call.result.operational_costs
        IN  /\ costs = IF call.platform = "shopify" THEN Mul(Rat(30, 100), revenue) ELSE Zero
            /\ call.result.roi_percentage
                  = IF Gt(costs, Zero)
                    THEN Mul(Div(Sub(revenue, costs), costs), Num(100))
                    ELSE Zero

C19_Witness ==
    /\ StandardizeDone
    /\ call.platform = "shopify"
    /\ call.result.total_revenue = Num(100000)
    /\ call.result.operational_costs = Num(30000)
    /\ call.result.roi_percentage = Rat(700, 3)

-----------------------------------------------------------------------------
(* Properties of calls in flight together (checked under SpecRace)         *)

BothReturned ==
    /\ call.fn = "concurrent"
    /\ \A s \in Sessions : call.sessions[s].pc = "done"

LoadedEntry(session, key) ==
    StoredEntry([automation_rules |-> session.automation_rules], key)

\* the performance record a fee call computes from the blob it loaded
PerformanceOf(session) ==
    PerformanceDataOf(LoadedEntry(session, "roi_baseline"), session.data,
                      session.subscription)

LastWriter == call.sessions[call.order[Len(call.order)]]
FirstWriter == call.sessions[call.order[1]]

TwoFeeCalls ==
    /\ BothReturned
    /\ \A s \in Sessions :
        /\ call.sessions[s].op = "calculate_performance_fees"
        /\ LoadedEntry(call.sessions[s], "roi_baseline") # None

StoredPerformanceIs(performance_data) ==
    /\ StoredEntry(funnels[SharedFunnelId], "latest_performance") = performance_data
    /\ funnels[SharedFunnelId].generated_revenue
           = performance_data.current_metrics.total_revenue
    /\ funnels[SharedFunnelId].calculated_roi
           = performance_data.current_metrics.roi_percentage

\* C12: once two fee calls on the same funnel, each having loaded a blob
\* with a baseline, have returned, in whatever order they loaded and
\* committed, both returned success, both committed (neither was rejected),
\* and the stored latest_performance, generated_revenue and calculated_roi
\* are those of the call that committed last
C12_LastWriteWins ==
    TwoFeeCalls =>
        /\ \A s \in Sessions : call.sessions[s].ret.success
        /\ Len(call.order) = 2
        /\ StoredPerformanceIs(PerformanceOf(LastWriter))

\* both fee calls loaded the funnel before either committed, their results
\* differ, and the later one's is what is stored
C12_Witness ==
    /\ TwoFeeCalls
    /\ LastWriter.stale
    /\ PerformanceOf(FirstWriter) # PerformanceOf(LastWriter)
    /\ StoredPerformanceIs(PerformanceOf(LastWriter))

ImportAndFeeCall ==
    /\ BothReturned
    /\ {call.sessions[s].op : s \in Sessions}
           = {"calculate_baseline_metrics", "calculate_performance_fees"}
    /\ \A s \in Sessions : call.sessions[s].ret.success

\* the stored blob holds, under key, what the last writer loaded and not
\* what the other call computed
UpdateLost(key, update) ==
    /\ StoredEntry(funnels[SharedFunnelId], key) = LoadedEntry(LastWriter, key)
    /\ StoredEntry(funnels[SharedFunnelId], key) # update

\* C13: when an import and a fee call on the same funnel have both returned
\* success and the one that committed last had loaded the blob before the
\* other committed, the other call's update is not in the stored blob: the
\* roi_baseline is the old one when the fee call committed last, the
\* latest_performance is the loaded one when the import committed last
C13_LostUpdate ==
    (ImportAndFeeCall /\ LastWriter.stale) =>
        IF LastWriter.op = "calculate_performance_fees"
        THEN UpdateLost("roi_baseline", RoiBaselineOf(FirstWriter.data))
        ELSE UpdateLost("latest_performance", PerformanceOf(FirstWriter))

\* the interleaving exists: both returned success, the fee call committed
\* last from a blob loaded before the import committed, and the import's
\* roi_baseline is gone from the stored blob
C13_Witness ==
    /\ ImportAndFeeCall
    /\ LastWriter.stale
    /\ LastWriter.op = "calculate_performance_fees"
    /\ UpdateLost("roi_baseline", RoiBaselineOf(FirstWriter.data))

\* the same with the import committing last: the fee call's
\* latest_performance is gone from the stored blob
LostPerformance ==
    /\ ImportAndFeeCall
    /\ LastWriter.stale
    /\ LastWriter.op = "calculate_baseline_metrics"
    /\ UpdateLost("latest_performance", PerformanceOf(FirstWriter))

-----------------------------------------------------------------------------
(* Further properties of the service in use (checked under Spec)           *)

SummarySucceeded(r) == r.op = "get_funnel_roi_summary" /\ r.ret.success

FeesSucceededOn(r, id) ==
    r.op = "calculate_performance_fees" /\ r.ret.success /\ r.funnel_id = id

\* what get_funnel_roi_summary would report of the fees of a funnel row
FeesShown(id, funnel, total_fees, fee_rate) ==
    /\ "current_performance" \in DOMAIN SummaryOf(id, funnel)
    /\ SummaryOf(id, funnel).current_performance.total_fees_due = total_fees
    /\ SummaryOf(id, funnel).current_performance.fee_rate = fee_rate

\* C21: Summary is a read-only projection.  A get_funnel_roi_summary step
\* changes no funnel and commits nothing; a successful summary reports
\* baseline_established exactly when roi_baseline is stored and
\* performance_tracking_active exactly when latest_performance is stored.  The
\* fees a summary shows are those of the most recent successful
\* calculate_performance_fees: a successful fee step makes the summary show
\* the total_fees and fee_rate it returned, and no other step changes the
\* stored latest_performance.
C21_SummaryProjection ==
    [][/\ response'.op = "get_funnel_roi_summary" =>
            /\ funnels' = funnels
            /\ ~response'.committed
            /\ response'.ret.success =>
                  /\ response'.ret.baseline_established
                        <=> StoredEntry(funnels[response'.funnel_id], "roi_baseline") # None
                  /\ response'.ret.performance_tracking_active
                        <=> StoredEntry(funnels[response'.funnel_id],
                                        "latest_performance") # None
                  /\ response'.ret = SummaryOf(response'.funnel_id,
                                               funnels'[response'.funnel_id])
       /\ \A id \in DOMAIN funnels :
            IF FeesSucceededOn(response', id)
            THEN FeesShown(id, funnels'[id], response'.ret.total_fees,
                           response'.ret.fee_rate)
            ELSE StoredEntry(funnels'[id], "latest_performance")
                     = StoredEntry(funnels[id], "latest_performance")]_vars

\* a summary that shows fees due after a fee calculation
C21_Witness ==
    /\ SummarySucceeded(response)
    /\ response.ret.baseline_established
    /\ response.ret.performance_tracking_active
    /\ Gt(response.ret.current_performance.total_fees_due, Zero)

\* C25: Stored performance matches stored baseline.  Whenever a funnel has a
\* latest_performance stored, its baseline_metrics are the baseline_metrics of
\* the roi_baseline the funnel has stored.
C25_PerformanceMatchesBaseline ==
    \A id \in DOMAIN funnels :
        StoredEntry(funnels[id], "latest_performance") # None =>
            /\ StoredEntry(funnels[id], "roi_baseline") # None
            /\ StoredEntry(funnels[id], "latest_performance").baseline_metrics
                   = StoredEntry(funnels[id], "roi_baseline").baseline_metrics

\* the fee total before the cap, from a returned breakdown
PreCapSum(breakdown) ==
    IF "fee_cap_applied" \in DOMAIN breakdown
    THEN breakdown["fee_cap_applied"].calculated_fees
    ELSE SumOfComponents(breakdown)

CapOf(ret) == Mul(ret.current_revenue, MaxFeeCapRate)

\* C26 as stated: in every successful calculate_performance_fees result the
\* pre-cap fee sum is below 0.15 x current revenue and the breakdown does not
\* contain fee_cap_applied.
C26_SumBelowCap ==
    FeesSucceeded =>
        /\ Lt(PreCapSum(response.ret.fee_breakdown), CapOf(response.ret))
        /\ "fee_cap_applied" \notin DOMAIN response.ret.fee_breakdown

\* C26 amended: in every successful calculate_performance_fees result the
\* breakdown does not contain fee_cap_applied; the pre-cap fee sum is below
\* 0.15 x current revenue when current revenue is positive, and when current
\* revenue is zero or negative the cap is not applied whatever the sum.
C26_CapNeverApplied ==
    FeesSucceeded =>
        /\ "fee_cap_applied" \notin DOMAIN response.ret.fee_breakdown
        /\ Gt(response.ret.current_revenue, Zero) =>
              Lt(PreCapSum(response.ret.fee_breakdown), CapOf(response.ret))

\* the highest plan rate with all three fee components charged
C26_Witness ==
    /\ FeesSucceeded
    /\ response.ret.fee_rate = Rat(10, 100)
    /\ FeeComponents \subseteq DOMAIN response.ret.fee_breakdown
    /\ Gt(response.ret.total_fees, Zero)

RoiImprovement == response.ret.qualifying_improvements["roi_percentage"]

RoiLost ==
    /\ FeesSucceeded
    /\ RoiImprovement.percentage = Num(-100)

WritingOps == {"calculate_baseline_metrics", "calculate_performance_fees"}

RoiOfRow(funnel) ==
    IF Gt(funnel.total_investment, Zero)
    THEN Mul(Div(Sub(funnel.generated_revenue, funnel.total_investment),
                 funnel.total_investment), Num(100))
    ELSE Zero

\* C28: Funnel financial summary is self-consistent.  In the state after a
\* successful calculate_baseline_metrics or calculate_performance_fees the
\* funnel's calculated_roi is (generated_revenue - total_investment) /
\* total_investment x 100 when total_investment > 0, and 0 otherwise.
C28_FinancialsConsistent ==
    (response.op \in WritingOps /\ response.ret.success) =>
        funnels[response.funnel_id].calculated_roi
            = RoiOfRow(funnels[response.funnel_id])

-----------------------------------------------------------------------------
(* Properties of a session used for several operations (checked under      *)
(* SpecSession)                                                            *)

\* C22: All-or-nothing writes.  A step changes a stored funnel row only if it
\* is a calculate_baseline_metrics or calculate_performance_fees on that
\* funnel that returns success and commits; a call that returns success=false
\* has none of its changes persisted, neither by its own step nor by the
\* commit of a later step on the session.
C22_AllOrNothing ==
    [][/\ \A id \in DOMAIN funnels :
            funnels'[id] # funnels[id] =>
                /\ response'.op \in WritingOps
                /\ response'.funnel_id = id
                /\ response'.ret.success
       /\ response'.op \in WritingOps => (response'.ret.success <=> response'.committed)
      ]_vars

-----------------------------------------------------------------------------
(* Properties of the template-creation route (checked under SpecRoute)     *)

RouteAnswered(statuses) ==
    /\ call.fn = "api_create_from_template"
    /\ call.pc = "answered"
    /\ response.op = "api_create_from_template"
    /\ response.status \in statuses

UsageBefore == SubSeq(call.usage, 1, call.usage_before)

UsageFor(funnel_id) ==
    {i \in 1..Len(call.usage) : call.usage[i].resource_id = funnel_id}

\* C29: a request creates a funnel only when check_usage_limits answered
\* allowed; a request answered 400 or 403 has created no funnel and recorded
\* no usage; a request answered with success has created one funnel and
\* recorded usage for it exactly once, and no usage is recorded before
\* create_funnel_from_template has returned from its commit.
C29_UsageGate ==
    call.fn = "api_create_from_template" =>
        /\ DOMAIN funnels # call.funnels_before => call.usage_check = "allowed"
        /\ call.pc = "creating" => call.usage = UsageBefore
        /\ RouteAnswered({400, 403}) =>
              /\ DOMAIN funnels = call.funnels_before
              /\ call.usage = UsageBefore
        /\ RouteAnswered({200}) =>
              /\ response.body.funnel_id \in DOMAIN funnels \ call.funnels_before
              /\ DOMAIN funnels = call.funnels_before \cup {response.body.funnel_id}
              /\ Len(call.usage) = call.usage_before + 1
              /\ Cardinality(UsageFor(response.body.funnel_id)) = 1
              /\ call.usage[Len(call.usage)].resource_id = response.body.funnel_id

\* a request answered with success: its funnel is stored and its usage record
\* is the only one
C29_Witness ==
    /\ RouteAnswered({200})
    /\ call.usage_check = "allowed"
    /\ response.body.funnel_id \in DOMAIN funnels
    /\ Len(call.usage) = 1

-----------------------------------------------------------------------------
(* Properties of the platform connectors (checked under SpecConnectors)    *)

PipelineOrder == <<"get_historical_data", "import_leads", "setup_webhooks">>

PipelineReturned ==
    /\ call.fn = "connectors"
    /\ call.op = "import_baseline_data"
    /\ response.op = "import_baseline_data"

\* C24: import_baseline_data invokes get_historical_data, import_leads and
\* setup_webhooks at most once each and in that order; when
\* get_historical_data reports success = false the call returns that failure
\* having invoked nothing else, and for an unsupported platform it returns
\* success = false having invoked no connector method.
C24_PipelineOrdering ==
    PipelineReturned =>
        /\ \E n \in 0..Len(PipelineOrder) : call.trace = SubSeq(PipelineOrder, 1, n)
        /\ response.historical_data = "failure" =>
              /\ call.trace = <<"get_historical_data">>
              /\ response.ret = Failure("Failed to fetch")
              /\ Len(call.leads) = call.rows_before
        /\ get_connector(response.platform) = "None" =>
              /\ call.trace = <<>>
              /\ response.ret.success = FALSE
              /\ Len(call.leads) = call.rows_before

\* get_historical_data reports a failure on a funnel that has leads from an
\* earlier import
C24_Witness ==
    /\ PipelineReturned
    /\ response.historical_data = "failure"
    /\ call.trace = <<"get_historical_data">>
    /\ Len(call.leads) > 0

\* the last call ran a connector's import_leads
ImportLeadsRan == call.fn = "connectors" /\ call.imported_with # None

\* the rows the last call left in the table that were not there before it
PersistedByCall == SubSeq(call.leads, call.rows_before + 1, Len(call.leads))

OneLeadPerEmailAndFunnel ==
    \A i, j \in 1..Len(Leads) :
        (Leads[i].email = Leads[j].email
           /\ Leads[i].sales_funnel_id = Leads[j].sales_funnel_id) => i = j

RerunAddsNothing ==
    (ImportLeadsRan /\ call.rerun) => (PersistedByCall = <<>> /\ call.ret = <<>>)

ReturnedIsPersisted ==
    ImportLeadsRan =>
        /\ Len(call.ret) = Len(PersistedByCall)
        /\ \A i \in 1..Len(call.ret) : call.ret[i].email = PersistedByCall[i].email

\* C30: the table holds at most one Lead per (email, sales_funnel_id); an
\* import run again with the same upstream answer adds no Lead and returns an
\* empty list; the list a call returns names exactly the leads that call
\* persisted, so an empty list means it persisted none.
C30_LeadImportIdempotent ==
    /\ OneLeadPerEmailAndFunnel
    /\ RerunAddsNothing
    /\ ReturnedIsPersisted

====
